---- MODULE Spec2Model ----
(***************************************************************************)
(* Event processing and cherry-pick orchestration of                       *)
(* gh-app-cherry-pick-poc.                                                 *)
(*                                                                         *)
(* Spec            the Cherry-Pick Orchestrator: one processing pass of    *)
(*                 Processor.processMergedPRWith on a GitHub repository.  *)
(* ServerSpec      the same pass as Server.processMergedPR runs it.        *)
(* RedeliverySpec  the pass for an event and the pass for its redelivery,  *)
(*                 in any interleaving of their GitHub and git calls.      *)
(* RouterSpec      the Event Router: signature check, classification and   *)
(*                 the dispatch of handlePREvent, one event at a time.     *)
(*                                                                         *)
(* Branch names, SHAs and labels are sequences of one-character strings so *)
(* that the string functions of the code are computed, not assumed.        *)
(***************************************************************************)
EXTENDS Integers, Sequences, FiniteSets, TLC

\* ------------------------------------------------------------------ bounds
\* Longest target list the labels of the merged PR name.
MaxTargets == 2

\* The processing passes for the merged PR: the delivery of its event and one
\* redelivery (the two runs the idempotence and the redelivery claims are about).
Passes == {1, 2}

\* ------------------------------------------------------------ input names
TargetSlash == <<"r", "/", "1">>
TargetMain == <<"m">>
\* Branch names that labels can name.  r/1 and r-1 differ only in the
\* character the work-branch naming rewrites.
Branches == {TargetSlash, <<"r", "-", "1">>, TargetMain}

LongSHA == <<"a", "b", "c", "1", "2", "3", "4", "5", "6">>
NoSHA == <<>>

\* The merged pull requests a pass can be about: the recorded merge SHA
\* (possibly empty), the commit list, and the parent count GitHub reports for
\* the merged commit.
SourcePRs ==
  { [sha |-> LongSHA, commits |-> <<<<"d", "e", "f">>>>, parents |-> 2],
    [sha |-> LongSHA, commits |-> <<>>, parents |-> 0],
    [sha |-> NoSHA, commits |-> <<LongSHA, <<"d", "e", "f">>>>, parents |-> 1],
    [sha |-> NoSHA, commits |-> <<>>, parents |-> 1] }

\* ------------------------------------------------------- string functions
\* strings.ReplaceAll(s, old, new) for one-character old and new.
ReplaceAll(s, old, new) ==
  [k \in 1..Len(s) |-> IF s[k] = old THEN new ELSE s[k]]

AutocherryPrefix == <<"a", "u", "t", "o", "c", "h", "e", "r", "r", "y", "/">>

\* short := mergeSHA; if len(short) > 7 { short = mergeSHA[:7] }
\* fmt.Sprintf("autocherry/%s/%s", safeTarget, short) in the orchestrator.
workBranchOf(target, sha) ==
  LET short == IF Len(sha) > 7 THEN SubSeq(sha, 1, 7) ELSE sha
  IN  AutocherryPrefix \o ReplaceAll(target, "/", "-") \o <<"/">> \o short

\* Mutant: the pushed branch name carries the whole SHA.
runnerWorkBranch_WholeSHA(targetBranch, sha) ==
  AutocherryPrefix \o ReplaceAll(targetBranch, "/", "-") \o <<"/">> \o sha

\* The same name as doCherryPick derives it for the branch it pushes.
runnerWorkBranch(targetBranch, sha) ==
  LET short == IF Len(sha) > 7 THEN SubSeq(sha, 1, 7) ELSE sha
      safeTarget == ReplaceAll(targetBranch, "/", "-")
  IN  AutocherryPrefix \o safeTarget \o <<"/">> \o short

\* -------------------------------------------------- labels to target list
Whitespace == {" ", "\t"}

UpperCase ==
  <<"A", "B", "C", "D", "E", "F", "G", "H", "I", "J", "K", "L", "M", "N", "O", "P", "Q",
    "R", "S", "T", "U", "V", "W", "X", "Y", "Z">>
LowerCase ==
  <<"a", "b", "c", "d", "e", "f", "g", "h", "i", "j", "k", "l", "m", "n", "o", "p", "q",
    "r", "s", "t", "u", "v", "w", "x", "y", "z">>

\* The (?i) flag of reCherryTo: the literal parts match in any case.
ToLowerStr(s) ==
  LET lower(c) == IF \E k \in 1..Len(UpperCase) : UpperCase[k] = c
                  THEN LowerCase[CHOOSE k \in 1..Len(UpperCase) : UpperCase[k] = c]
                  ELSE c
  IN  [k \in 1..Len(s) |-> lower(s[k])]

MinOf(S) == CHOOSE x \in S : \A y \in S : x <= y
MaxOf(S) == CHOOSE x \in S : \A y \in S : x >= y

\* strings.TrimSpace
TrimSpace(s) ==
  LET keep == {k \in 1..Len(s) : s[k] \notin Whitespace}
  IN  IF keep = {} THEN <<>> ELSE SubSeq(s, MinOf(keep), MaxOf(keep))

\* strings.HasPrefix and strings.TrimPrefix
HasPrefix(s, prefix) == Len(s) >= Len(prefix) /\ SubSeq(s, 1, Len(prefix)) = prefix
TrimPrefix(s, prefix) == IF HasPrefix(s, prefix) THEN SubSeq(s, Len(prefix) + 1, Len(s)) ELSE s

\* The word w stands in s at position k.
HasAt(s, k, w) == k + Len(w) - 1 <= Len(s) /\ SubSeq(s, k, k + Len(w) - 1) = w

\* The first position from k on that holds no whitespace (Len(s) + 1 if none).
SkipSpace(s, k) ==
  LET rest == {j \in k..Len(s) : s[j] \notin Whitespace}
  IN  IF rest = {} THEN Len(s) + 1 ELSE MinOf(rest)

RefsHeads ==
  <<"r", "e", "f", "s", "/", "h", "e", "a", "d", "s", "/">>

\* reCherryTo.FindStringSubmatch(name) for a name that strings.TrimSpace has
\* trimmed: (?i)^\s*cherry[\s-]?pick\s+to\s+(.+?)\s*$.  The group is what
\* follows the whitespace after "to"; a trimmed name has no trailing
\* whitespace for \s*$ to take.
reCherryTo(name) ==
  LET l == ToLowerStr(name)
      a == SkipSpace(l, 1)
      b == a + Len(<<"c", "h", "e", "r", "r", "y">>)
      c == IF b <= Len(l) /\ l[b] \in Whitespace \cup {"-"} THEN b + 1 ELSE b
      d == c + Len(<<"p", "i", "c", "k">>)
      e == SkipSpace(l, d)
      f == e + Len(<<"t", "o">>)
      g == SkipSpace(l, f)
      matched == /\ HasAt(l, a, <<"c", "h", "e", "r", "r", "y">>)
                 /\ HasAt(l, c, <<"p", "i", "c", "k">>)
                 /\ e > d
                 /\ HasAt(l, e, <<"t", "o">>)
                 /\ g > f
                 /\ g <= Len(l)
  IN  IF matched
      THEN [ok |-> TRUE, group |-> SubSeq(name, g, Len(name))]
      ELSE [ok |-> FALSE, group |-> <<>>]

\* The maximal runs of characters of s that are not in seps, in order.
RECURSIVE Tokens(_, _)
Tokens(s, seps) ==
  IF s = <<>> THEN <<>>
  ELSE IF s[1] \in seps THEN Tokens(Tail(s), seps)
  ELSE LET stops == {k \in 1..Len(s) : s[k] \in seps}
           n == IF stops = {} THEN Len(s) + 1 ELSE MinOf(stops)
       IN  <<SubSeq(s, 1, n - 1)>> \o Tokens(SubSeq(s, n, Len(s)), seps)

RECURSIVE fieldsOfParts(_)
fieldsOfParts(parts) ==
  IF parts = <<>> THEN <<>>
  ELSE Tokens(TrimSpace(Head(parts)), Whitespace) \o fieldsOfParts(Tail(parts))

\* Split by comma, drop the blank parts, split the others by whitespace.
splitBranches(s) == fieldsOfParts(Tokens(s, {","}))

\* The inner loop of ParseTargetBranches: trim, strip refs/heads/, skip the
\* empty and the already seen.
RECURSIVE addBranches(_, _)
addBranches(out, candidates) ==
  IF candidates = <<>> THEN out
  ELSE LET br == TrimPrefix(TrimSpace(Head(candidates)), RefsHeads)
           seen == {out[k] : k \in 1..Len(out)}
       IN  addBranches(IF br = <<>> \/ br \in seen THEN out ELSE Append(out, br),
                       Tail(candidates))

RECURSIVE parseLabels(_, _)
parseLabels(out, labels) ==
  IF labels = <<>> THEN out
  ELSE LET l == Head(labels)
           m == reCherryTo(TrimSpace(l.name))
       IN  parseLabels(IF l.present /\ m.ok THEN addBranches(out, splitBranches(m.group)) ELSE out,
                       Tail(labels))

\* Mutant: only the last label of the list is parsed.
ParseTargetBranches_LastLabelOnly(labels) ==
  parseLabels(<<>>, IF labels = <<>> THEN <<>> ELSE <<labels[Len(labels)]>>)

\* cherry.ParseTargetBranches
ParseTargetBranches(labels) == parseLabels(<<>>, labels)

Label(name) == [present |-> TRUE, name |-> name]

LabelCherrySlash ==
  <<"c", "h", "e", "r", "r", "y", "-", "p", "i", "c", "k", " ", "t", "o", " ", "r",
   "/", "1">>
LabelBug ==
  <<"b", "u", "g">>

\* The labels an event can carry.
Labels ==
  {[present |-> FALSE, name |-> <<>>],
   Label(LabelCherrySlash),
   Label(<<"C", "h", "e", "r", "r", "y", " ", "P", "i", "c", "k", " ", " ", "T", "o", " ",
           "r", "e", "f", "s", "/", "h", "e", "a", "d", "s", "/", "r", "/", "1", ",", " ",
           "m", " ">>),
   Label(LabelBug),
   Label(<<"c", "h", "e", "r", "r", "y", "-", "p", "i", "c", "k", " ", "t", "o">>)}

\* cherry.ParseTargetBranches([]*github.Label{label}) for the labels of events.
targetsOfLabel == [l \in Labels |-> ParseTargetBranches(<<l>>)]

\* ------------------------------------------------------------------ state
VARIABLES
  impl,          \* "processor" (Processor, the SQS binary) or "server" (webhook.Server)
  passes,        \* the deliveries of the merged-PR event that get processed
  sourcePR,      \* the merged pull request the passes are about
  prTargets,     \* ParseTargetBranches(pr.Labels) of the merged pull request
  refs,          \* branch refs of the repository (refs/heads/<name>)
  prs,           \* open pull requests of the repository
  pc,            \* per pass: position in processMergedPR
  passTargets,   \* per pass: targets
  idx,           \* per pass: index of the loop over targets
  mergeSHA,      \* per pass: the resolved merge SHA
  isMerge,       \* per pass: topology classification
  workBranchOut, \* per pass: the branch name Pick returned
  posted,        \* per pass: the CreateComment calls it made on the source PR, in order
  lookups,       \* Git().GetRef, PR().ListCommits and Repos().GetCommit calls made
                 \* so far, with their answers
  invoked,       \* CherryPickRunner.Pick calls made so far, with their results
  pushed,        \* pushes that succeeded so far
  createCalls,   \* PR().Create calls made so far, with their results
  doneBefore     \* per pass: the passes that had returned when it started

orchVars == <<impl, passes, sourcePR, prTargets, refs, prs, pc, passTargets, idx, mergeSHA,
              isMerge, workBranchOut, posted, lookups, invoked, pushed, createCalls,
              doneBefore>>

VARIABLES
  inbound,       \* the event the transport handed over, NoEvent before
  response,      \* the status and error reported for it
  task,          \* the detached task spawned for it
  dispatched,    \* what handlePREvent started for it
  reversal,      \* the unlabel reversal: its targets, loop index and merge SHA, and
                 \* what each finished iteration did
  ghCalls,       \* the GitHub calls made for the event outside a processing pass
  notes,         \* the comments the unlabel reversal posted, in order
  process,       \* "up" while the program runs, "crashed" once a panic ended it
  carriers,      \* the open issues that carry the label of a label event
  expired        \* the passes whose context is past its deadline

routerVars == <<inbound, response, task, dispatched, reversal, ghCalls, notes,
                process, carriers, expired>>

VARIABLES
  repoLabels,    \* the names of the labels of the repository
  labelled,      \* the label names the merged pull request carries
  labelTask,     \* handleCreateEvent: its position, the event and the label it ensures
  retention,     \* enforceLabelRetention: keep, the labels still to delete, the result
  labelCalls     \* the GitHub calls made for labels, in order

labelVars == <<repoLabels, labelled, labelTask, retention, labelCalls>>

VARIABLES
  parseIn,       \* the argument of a parser: a list of labels handed to
                 \* ParseTargetBranches, a message body handed to ParseSQSBody
  parseOut,      \* what the parser returned for it
  git,           \* a call of doCherryPick: its arguments and what each step of
                 \* the runner will do, then the calls made and the result
  worker         \* sqs.Worker.Run: the fields of the Worker, its position, the
                 \* context, the messages of the last receive and what was
                 \* done with each

parseVars == <<parseIn, parseOut, git, worker>>

NoPR == [head |-> <<>>, base |-> <<>>, by |-> 0]

\* ---------------------------------------------------------- comment bodies
\* A comment body is kept as its outcome marker (the emoji it starts with),
\* its outcome class, the branch names it contains and the pull-request URL
\* it contains (NoPR when none).  for is the loop iteration that posted it
\* (0: before the loop).
Comment(i, marker, kind, names, url) ==
  [for |-> i, marker |-> marker, kind |-> kind, names |-> names, url |-> url]

shaMissingComment ==
  Comment(0, "warning", "ShaMissing", {}, NoPR)
\* Mutant: the warning does not name the missing branch.
targetMissingComment_NoName(i, target) ==
  Comment(i, "warning", "TargetMissing", {}, NoPR)
targetMissingComment(i, target) ==
  Comment(i, "warning", "TargetMissing", {target}, NoPR)
\* Mutant: the success comment leaves out the target branch.
openedComment_NoTarget(i, target, newPR) ==
  Comment(i, "success", "Opened", {}, newPR)
\* Processor: "Auto cherry-pick to `%s` opened: %s"; Server: "Auto cherry-pick opened: %s".
openedComment(i, target, newPR) ==
  IF impl = "processor"
  THEN Comment(i, "success", "Opened", {target}, newPR)
  ELSE Comment(i, "success", "Opened", {}, newPR)

\* ------------------------------------------------------ GitHub capability
\* Git().GetRef(refs/heads/<name>): whether the call returns without error.
\* It can for a ref that exists; it returns an error for a ref that does not
\* exist and whenever the call itself fails.
GetRefAnswers(name) == IF name \in refs THEN {TRUE, FALSE} ELSE {FALSE}

\* Mutant: a call succeeds after the deadline of its context.
Cancelled_Ignored(p, ok) == TRUE

\* A call made under the context of pass p (a GitHub request, a git
\* subprocess started with exec.CommandContext) fails once the deadline of
\* that context has passed.
Cancelled(p, ok) == p \in expired => ~ok

\* PR().List(state=open, head=owner:<head>, base=<base>).
listOpenPRs(head, base) == {q \in prs : q.head = head /\ q.base = base}

\* -------------------------------------------------------- pass prelude
\* Targets: override or parse labels.
resolveTargets(targetsOverride) ==
  IF Len(targetsOverride) > 0 THEN targetsOverride ELSE prTargets

\* Mutant: the fallback takes the first listed commit.
resolveSHA_FirstCommit(listOK) ==
  IF sourcePR.sha /= NoSHA
  THEN [ok |-> TRUE, sha |-> sourcePR.sha]
  ELSE IF ~listOK \/ Len(sourcePR.commits) = 0
       THEN [ok |-> FALSE, sha |-> NoSHA]
       ELSE [ok |-> TRUE, sha |-> sourcePR.commits[1]]

\* Determine merged commit SHA: the recorded one, else the last listed commit.
resolveSHA(listOK) ==
  IF sourcePR.sha /= NoSHA
  THEN [ok |-> TRUE, sha |-> sourcePR.sha]
  ELSE IF ~listOK \/ Len(sourcePR.commits) = 0
       THEN [ok |-> FALSE, sha |-> NoSHA]
       ELSE [ok |-> TRUE, sha |-> sourcePR.commits[Len(sourcePR.commits)]]

\* Mutant: the parent count is used although the commit lookup failed.
classifyMerge_IgnoresError(commitOK) == sourcePR.parents > 1

\* isMerge := (err == nil && rc != nil && len(rc.Parents) > 1)
classifyMerge(commitOK) == commitOK /\ sourcePR.parents > 1

\* PR().ListCommits is called only when the PR records no merge SHA.  A call
\* of the prelude is kept with the ref it asks about and whether it returned
\* without error.
listCommitsCalls(listOK) ==
  IF sourcePR.sha = NoSHA THEN {[what |-> "commits", ref |-> NoSHA, ok |-> listOK]} ELSE {}

Returned(targets, sha, comments, calls) ==
  [pc |-> "aborted", targets |-> targets, sha |-> sha, merge |-> FALSE,
   comments |-> comments, calls |-> calls]

\* Everything processMergedPR does before its loop over the targets.  The
\* Processor fetches the installation token first; the Server fetches it
\* after it has resolved the SHA and classified the commit.
prelude(targetsOverride, clientsOK, tokenOK, getOK, listOK, commitOK) ==
  LET targets == resolveTargets(targetsOverride)
      r == resolveSHA(listOK)
      calls == listCommitsCalls(listOK) \cup {[what |-> "commit", ref |-> r.sha, ok |-> commitOK]}
  IN  IF ~clientsOK THEN Returned(<<>>, NoSHA, <<>>, {})
      ELSE IF impl = "processor" /\ ~tokenOK THEN Returned(<<>>, NoSHA, <<>>, {})
      ELSE IF ~getOK THEN Returned(<<>>, NoSHA, <<>>, {})
      ELSE IF Len(targets) = 0 THEN Returned(targets, NoSHA, <<>>, {})
      ELSE IF ~r.ok
           THEN Returned(targets, NoSHA, <<shaMissingComment>>, listCommitsCalls(listOK))
      ELSE IF impl = "server" /\ ~tokenOK THEN Returned(targets, r.sha, <<>>, calls)
      ELSE [pc |-> "target", targets |-> targets, sha |-> r.sha,
            merge |-> classifyMerge(commitOK), comments |-> <<>>, calls |-> calls]

\* ------------------------------------------------------------ the passes
Target(p) == passTargets[p][idx[p]]

Post(p, cs) == posted' = [posted EXCEPT ![p] = @ \o cs]

\* Mutant: a failed pick returns from the pass instead of continuing.
afterOutcome_ReturnOnFailure(p, outcome) ==
  IF outcome = "conflict" \/ idx[p] + 1 > Len(passTargets[p]) THEN "done" ELSE "target"

\* Where the loop goes after the outcome of one target: every outcome ends in
\* `continue` (or is the end of the loop body).
afterOutcome(p, outcome) ==
  IF idx[p] + 1 > Len(passTargets[p]) THEN "done" ELSE "target"

Continue(p, outcome) ==
  /\ idx' = [idx EXCEPT ![p] = @ + 1]
  /\ pc' = [pc EXCEPT ![p] = afterOutcome(p, outcome)]

\* processMergedPR is called for delivery p: everything up to the loop over
\* the targets.
StartPass(p) ==
  /\ p \in passes
  /\ pc[p] = "idle"
  /\ \A q \in Passes : q < p => pc[q] /= "idle"
  /\ \E targetsOverride \in {<<>>, <<TargetSlash>>},
        clientsOK, tokenOK, getOK, listOK, commitOK \in BOOLEAN :
       LET r == prelude(targetsOverride, clientsOK, tokenOK, getOK, listOK, commitOK)
       IN  /\ pc' = [pc EXCEPT ![p] = r.pc]
           /\ passTargets' = [passTargets EXCEPT ![p] = r.targets]
           /\ mergeSHA' = [mergeSHA EXCEPT ![p] = r.sha]
           /\ isMerge' = [isMerge EXCEPT ![p] = r.merge]
           /\ Post(p, r.comments)
           /\ lookups' = lookups \cup
                {[by |-> p, i |-> 0, what |-> c.what, ref |-> c.ref, ok |-> c.ok,
                  exists |-> TRUE] : c \in r.calls}
  /\ idx' = [idx EXCEPT ![p] = 1]
  /\ doneBefore' = [doneBefore EXCEPT ![p] = {q \in Passes : pc[q] \in {"done", "aborted"}}]
  /\ UNCHANGED <<routerVars, labelVars, parseVars>>
  /\ UNCHANGED <<impl, passes, sourcePR, prTargets, refs, prs, workBranchOut, invoked,
                 pushed, createCalls>>

\* Ensure target branch exists: any error of GetRef reads as "not found".
CheckTarget(p) ==
  /\ pc[p] = "target"
  /\ \E found \in GetRefAnswers(Target(p)) :
       /\ Cancelled(p, found)
       /\ lookups' = lookups \cup
            {[by |-> p, i |-> idx[p], what |-> "target", ref |-> Target(p),
              ok |-> found, exists |-> Target(p) \in refs]}
       /\ IF found
          THEN /\ pc' = [pc EXCEPT ![p] = "work"]
               /\ UNCHANGED <<idx, posted>>
          ELSE /\ Post(p, <<targetMissingComment(idx[p], Target(p))>>)
               /\ Continue(p, "TargetMissing")
  /\ UNCHANGED <<routerVars, labelVars, parseVars>>
  /\ UNCHANGED <<impl, passes, sourcePR, prTargets, refs, prs, passTargets, mergeSHA, isMerge,
                 workBranchOut, invoked, pushed, createCalls, doneBefore>>

\* Idempotency: work branch already exists?  The branch counts as existing
\* when GetRef returned no error, as absent on every error.
CheckWorkBranch(p) ==
  /\ pc[p] = "work"
  /\ LET workBranch == workBranchOf(Target(p), mergeSHA[p])
     IN  \E found \in GetRefAnswers(workBranch) :
           /\ Cancelled(p, found)
           /\ lookups' = lookups \cup
                {[by |-> p, i |-> idx[p], what |-> "work", ref |-> workBranch,
                  ok |-> found, exists |-> workBranch \in refs]}
           /\ pc' = [pc EXCEPT ![p] = IF found THEN "list" ELSE "pick"]
  /\ UNCHANGED <<routerVars, labelVars, parseVars>>
  /\ UNCHANGED <<impl, passes, sourcePR, prTargets, refs, prs, passTargets, idx, mergeSHA, isMerge,
                 workBranchOut, posted, invoked, pushed, createCalls, doneBefore>>

\* The work branch exists: look for an open pull request, comment ("already
\* open" with the URL of the first listed pull request, else "work branch
\* exists"), continue.
ListExisting(p) ==
  /\ pc[p] = "list"
  /\ \E listOK \in BOOLEAN :
       LET workBranch == workBranchOf(Target(p), mergeSHA[p])
           found == IF listOK THEN listOpenPRs(workBranch, Target(p)) ELSE {}
       IN  \E first \in (IF found = {} THEN {NoPR} ELSE found) :
             Cancelled(p, listOK) /\ Post(p, <<IF found /= {}
                       THEN Comment(idx[p], "info", "AlreadyOpen", {Target(p)}, first)
                       ELSE Comment(idx[p], "info", "BranchExistsNoPR",
                                    {workBranch, Target(p)}, NoPR)>>)
  /\ Continue(p, "Existing")
  /\ UNCHANGED <<routerVars, labelVars, parseVars>>
  /\ UNCHANGED <<impl, passes, sourcePR, prTargets, refs, prs, passTargets, mergeSHA, isMerge,
                 workBranchOut, lookups, invoked, pushed, createCalls, doneBefore>>

\* Mutant: the no-op classification is not recognised.
pickErrorComment_NoNoop(i, target, result) ==
  Comment(i, "warning", "Conflict", {target}, NoPR)

\* The comment for a failed pick.
pickErrorComment(i, target, result) ==
  IF result = "noop"
  THEN Comment(i, "info", "NoOp", {target}, NoPR)
  ELSE Comment(i, "warning", "Conflict", {target}, NoPR)

\* realCherryRunner.Pick: DoCherryPickWithMainline(..., 1, ...) for a merge,
\* DoCherryPick (mainline 0: no -m argument) otherwise.
mainlineOf(merge) == IF merge THEN 1 ELSE 0

\* Run cherry-pick via the runner.
Pick(p) ==
  /\ pc[p] = "pick"
  /\ \E result \in {"pushed", "noop", "conflict"} :
       /\ Cancelled(p, result /= "conflict")
       /\ invoked' = invoked \cup
            {[by |-> p, i |-> idx[p], target |-> Target(p), sha |-> mergeSHA[p],
              mainline |-> mainlineOf(isMerge[p]), result |-> result]}
       /\ IF result = "pushed"
          THEN /\ refs' = refs \cup {runnerWorkBranch(Target(p), mergeSHA[p])}
               /\ pushed' = pushed \cup
                    {[by |-> p, i |-> idx[p], target |-> Target(p),
                      branch |-> runnerWorkBranch(Target(p), mergeSHA[p])]}
               /\ workBranchOut' =
                    [workBranchOut EXCEPT ![p] = runnerWorkBranch(Target(p), mergeSHA[p])]
               /\ pc' = [pc EXCEPT ![p] = "create"]
               /\ UNCHANGED <<idx, posted>>
          ELSE /\ Post(p, <<pickErrorComment(idx[p], Target(p), result)>>)
               /\ Continue(p, result)
               /\ UNCHANGED <<refs, pushed, workBranchOut>>
  /\ UNCHANGED <<routerVars, labelVars, parseVars>>
  /\ UNCHANGED <<impl, passes, sourcePR, prTargets, prs, passTargets, mergeSHA, isMerge, lookups,
                 createCalls, doneBefore>>

\* The pull request PR().Create opens.
newPullRequest(p) == [head |-> workBranchOut[p], base |-> Target(p), by |-> p]

\* Open PR into target.
CreatePR(p) ==
  /\ pc[p] = "create"
  /\ \E createOK \in BOOLEAN :
       /\ Cancelled(p, createOK)
       /\ createCalls' = createCalls \cup
            {[by |-> p, i |-> idx[p], head |-> workBranchOut[p], base |-> Target(p),
              ok |-> createOK]}
       /\ IF createOK
          THEN /\ prs' = prs \cup {newPullRequest(p)}
               /\ Post(p, <<openedComment(idx[p], Target(p), newPullRequest(p))>>)
               /\ Continue(p, "Opened")
          ELSE /\ Post(p, IF impl = "processor"
                           THEN <<Comment(idx[p], "warning", "CreateFailed",
                                          {Target(p)}, NoPR)>>
                           ELSE <<>>)
               /\ Continue(p, "CreateFailed")
               /\ UNCHANGED prs
  /\ UNCHANGED <<routerVars, labelVars, parseVars>>
  /\ UNCHANGED <<impl, passes, sourcePR, prTargets, refs, passTargets, mergeSHA, isMerge,
                 workBranchOut, lookups, invoked, pushed, doneBefore>>

\* The deadline of the context of pass p passes while the loop over the
\* targets runs.
Expire(p) ==
  /\ pc[p] \in {"target", "work", "list", "pick", "create"}
  /\ p \notin expired
  /\ expired' = expired \cup {p}
  /\ UNCHANGED <<inbound, response, task, dispatched, reversal, ghCalls, notes, process,
                 carriers, orchVars, labelVars, parseVars>>

\* ------------------------------------------------------------ event router
WebhookSecret == "webhook-secret"

\* What a payload decodes to as a github.PullRequestEvent: GetInstallation()
\* /= nil, GetAction(), GetPullRequest().GetMerged(), Label.
EmptyEvent ==
  [installation |-> FALSE, action |-> "", merged |-> FALSE,
   label |-> [present |-> FALSE, name |-> <<>>]]

\* A raw body: whether it is JSON ("valid": JSON of the right shape;
\* "mistyped": a JSON object whose fields have the wrong types; "invalid": not
\* JSON; "empty": no bytes), the event its top-level fields are of, and what
\* it decodes to; "space" is a body of whitespace only.  keys are the top-level
\* keys the inference of the queue parser looks at: ref_type is "absent",
\* "empty" (the empty string), "string" (a non-empty string) or "other" (not a
\* string).
Body(json, kind, e) ==
  [json |-> json, kind |-> kind, e |-> e,
   keys |-> [pull_request |-> kind = "pull_request",
             ref_type |-> IF kind = "create" THEN "string" ELSE "absent",
             label |-> kind = "label" \/ (kind = "pull_request" /\ e.label.present),
             action |-> kind \in {"pull_request", "label"}]]
EmptyBody == Body("empty", "", EmptyEvent)
Bodies ==
  {Body("valid", "pull_request", e) : e \in [installation : BOOLEAN, action : {"closed", "labeled", "unlabeled", "opened"}, merged : BOOLEAN, label : Labels]}
    \cup {Body("valid", "create", [EmptyEvent EXCEPT !.installation = TRUE]),
          Body("valid", "label", [installation |-> TRUE, action |-> "deleted",
                                  merged |-> FALSE, label |-> Label(LabelCherrySlash)]),
          Body("valid", "push", [EmptyEvent EXCEPT !.installation = TRUE]),
          Body("mistyped", "pull_request", EmptyEvent),
          Body("invalid", "", EmptyEvent),
          EmptyBody}

\* X-GitHub-Event values, "" when the header is absent.
HeaderEvents == {"pull_request", "create", "label", "push", ""}

\* mac := hmac.New(sha256.New, secret); mac.Write(body); mac.Sum(nil).  The
\* MAC is a function of key and message without collisions.
Mac(secret, body) == [key |-> secret, msg |-> body]

\* A signature header value: a prefix and the hex digits of a MAC, in lower
\* or upper case.  NoSig is the empty string.
NoSig == [prefix |-> "", mac |-> Mac("", EmptyBody), upper |-> FALSE]

\* "sha256=" + hex.EncodeToString(mac.Sum(nil))
signatureOf(secret, body) == [prefix |-> "sha256=", mac |-> Mac(secret, body), upper |-> FALSE]

\* strings.ToLower on a header value.
ToLowerSig(sig) ==
  [sig EXCEPT !.prefix = IF @ = "SHA256=" THEN "sha256=" ELSE @, !.upper = FALSE]

\* The signature header values an event can arrive with: none, the right one
\* in lower and in upper case, one made with another secret, one made for
\* another body, and the bare hex digits.
ProvidedSigs(body) ==
  LET right == signatureOf(WebhookSecret, body)
      otherBody == IF body = EmptyBody THEN Body("invalid", "", EmptyEvent) ELSE EmptyBody
  IN  {NoSig,
       right,
       [right EXCEPT !.prefix = "SHA256=", !.upper = TRUE],
       signatureOf("other-secret", body),
       signatureOf(WebhookSecret, otherBody),
       [right EXCEPT !.prefix = ""]}

\* Processor.verifySig and Server.verifySig
verifySig(sig, body) ==
  IF sig = NoSig THEN FALSE
  ELSE ToLowerSig(sig) = ToLowerSig(signatureOf(WebhookSecret, body))

\* json.Unmarshal(body, &e) returned no error.
unmarshalOK(body) == body.json = "valid"

\* What a handler reports and the detached task it spawned.
Reply(status, err, spawn) == [status |-> status, err |-> err, spawn |-> spawn]

\* Mutant: an event type the router does not know is reported as an error.
HandleFromEnvelope_UnknownIsError(event, sig, body) ==
  IF ~verifySig(sig, body) THEN Reply(401, TRUE, "none")
  ELSE IF event \in {"pull_request", "create", "label"}
  THEN IF ~unmarshalOK(body) THEN Reply(400, TRUE, "none") ELSE Reply(202, FALSE, event)
  ELSE Reply(400, TRUE, "none")

\* Processor.HandleFromEnvelope
HandleFromEnvelope(event, sig, body) ==
  IF ~verifySig(sig, body) THEN Reply(401, TRUE, "none")
  ELSE IF event \in {"pull_request", "create", "label"}
  THEN IF ~unmarshalOK(body) THEN Reply(400, TRUE, "none") ELSE Reply(202, FALSE, event)
  ELSE Reply(204, FALSE, "none")

\* Processor.HandleEvent: signs the body itself and forwards.
HandleEvent(event, body) ==
  HandleFromEnvelope(event, signatureOf(WebhookSecret, body), body)

\* Server.ServeHTTP: http.Error is the error reply.
ServeHTTP(event, sig, body) ==
  IF ~verifySig(sig, body) THEN Reply(401, TRUE, "none")
  ELSE IF event = "pull_request"
  THEN IF ~unmarshalOK(body) THEN Reply(400, TRUE, "none") ELSE Reply(202, FALSE, event)
  ELSE Reply(204, FALSE, "none")

\* Mutant: the label test comes before the pull_request test.
detectEventFromPayload_LabelFirst(payload) ==
  IF payload.json \in {"invalid", "empty", "space"} THEN [err |-> "bad", event |-> ""]
  ELSE IF payload.keys.label /\ payload.keys.action THEN [err |-> "none", event |-> "label"]
  ELSE IF payload.keys.pull_request THEN [err |-> "none", event |-> "pull_request"]
  ELSE IF payload.keys.ref_type = "string" THEN [err |-> "none", event |-> "create"]
  ELSE [err |-> "unknown", event |-> ""]

\* queue.detectEventFromPayload: "bad" is the error of json.Unmarshal,
\* "unknown" is ErrUnknownEvent.
detectEventFromPayload(payload) ==
  IF payload.json \in {"invalid", "empty", "space"} THEN [err |-> "bad", event |-> ""]
  ELSE IF payload.keys.pull_request THEN [err |-> "none", event |-> "pull_request"]
  ELSE IF payload.keys.ref_type = "string" THEN [err |-> "none", event |-> "create"]
  ELSE IF payload.keys.label /\ payload.keys.action THEN [err |-> "none", event |-> "label"]
  ELSE [err |-> "unknown", event |-> ""]

\* queue.ParseSQSBody.  A message is raw bytes (shape "raw", the bytes in
\* body) or a JSON object that decodes as an Envelope (shape "envelope"):
\* headers is the map (present or nil) with the value of X-GitHub-Event as a
\* sequence of whitespace characters and one name, <<>> when the key is
\* missing; form tells whether the body field is absent, a JSON string
\* holding the payload or the payload object itself.
ParseSQSBody(msg) ==
  LET fail(e) == [err |-> e, event |-> "", payload |-> EmptyBody]
      payload == IF msg.form = "absent" THEN EmptyBody ELSE msg.body
      header == IF msg.headers.present THEN TrimSpace(msg.headers.event) ELSE <<>>
      detect(p) ==
        LET d == detectEventFromPayload(p)
        IN  IF d.err /= "none" THEN fail(d.err)
            ELSE [err |-> "none", event |-> d.event, payload |-> p]
  IN  IF msg.shape = "raw"
      THEN IF msg.body.json \in {"empty", "space"} THEN fail("bad") ELSE detect(msg.body)
      ELSE IF msg.headers.present \/ msg.form /= "absent"
      THEN IF header /= <<>>
           THEN [err |-> "none", event |-> header[1], payload |-> payload]
           ELSE detect(payload)
      ELSE fail("unknown")

\* The delivery id queue.ParseSQSBody returns: the trimmed X-GitHub-Delivery
\* header of an envelope with headers, "" otherwise.
deliveryOf(msg) ==
  IF msg.shape = "envelope" /\ msg.headers.present THEN TrimSpace(msg.headers.delivery)
  ELSE <<>>

\* Mutant: the status the processor returned is passed on as it is.
handleSQSMessage_NoDefault(msg, msgID, reply) ==
  LET parsed == ParseSQSBody(msg)
      delivery == IF deliveryOf(msg) = <<>> THEN msgID ELSE deliveryOf(msg)
      answer(status, err) == [status |-> status, err |-> err, spawn |-> "none", call |-> <<>>]
  IN  IF parsed.err = "unknown" THEN answer(204, FALSE)
      ELSE IF parsed.err = "bad" THEN answer(400, TRUE)
      ELSE IF parsed.payload.json = "empty" THEN answer(204, FALSE)
      ELSE [status |-> reply.status, err |-> reply.err, spawn |-> reply.spawn,
            call |-> <<[event |-> parsed.event, delivery |-> delivery,
                        payload |-> parsed.payload]>>]

\* Worker.handleSQSMessage(msgBody, msgID); reply is what
\* w.Processor.HandleEvent returns for the parsed event.  call is the call of
\* the processor it made, if any.
handleSQSMessage(msg, msgID, reply) ==
  LET parsed == ParseSQSBody(msg)
      delivery == IF deliveryOf(msg) = <<>> THEN msgID ELSE deliveryOf(msg)
      answer(status, err) == [status |-> status, err |-> err, spawn |-> "none", call |-> <<>>]
  IN  IF parsed.err = "unknown" THEN answer(204, FALSE)
      ELSE IF parsed.err = "bad" THEN answer(400, TRUE)
      ELSE IF parsed.payload.json = "empty" THEN answer(204, FALSE)
      ELSE [status |-> IF reply.status /= 0 THEN reply.status
                       ELSE IF reply.err THEN 500 ELSE 200,
            err |-> reply.err, spawn |-> reply.spawn,
            call |-> <<[event |-> parsed.event, delivery |-> delivery,
                        payload |-> parsed.payload]>>]

\* The deletion policy of Worker.Run for a status.
shouldDelete_Always4xx(code, DeleteOn4xx) ==
  (code >= 200 /\ code < 300) \/ (code >= 400 /\ code < 500)

shouldDelete(code, DeleteOn4xx) ==
  IF code >= 200 /\ code < 300 THEN TRUE
  ELSE IF code >= 400 /\ code < 500 THEN DeleteOn4xx
  ELSE FALSE

Event(path, shape, event, sig, body) ==
  [path |-> path, shape |-> shape, event |-> event, sig |-> sig, body |-> body]
NoEvent == Event("none", "", "", NoSig, EmptyBody)
NoTask ==
  [kind |-> "none", router |-> "", state |-> "", e |-> EmptyEvent,
   cherryTimeout |-> 0, deadline |-> 0]
NoReversal == [targets |-> <<>>, idx |-> 1, sha |-> NoSHA, log |-> <<>>]

passVars == <<impl, passes, sourcePR, prTargets, pc, passTargets, idx, mergeSHA, isMerge,
              workBranchOut, posted, lookups, invoked, pushed, createCalls, doneBefore>>

\* Whether the goroutine of a task of this kind defers a recover(): the one of
\* a pull_request event does, those of create and label events do not.
recoversPanic(kind) == kind = "pull_request"

\* The deadline, in seconds, of the context a detached path makes its calls
\* under, 0 for context.Background(), which has none: 90 seconds for the create
\* and the label goroutine; for the pass, Processor.CherryTimeout, or 2 minutes
\* when that is <= 0 (always 2 minutes in the Server); the unlabeled case
\* passes the context of its goroutine on.
taskDeadline(router, what, cherryTimeout) ==
  IF what \in {"create", "label"} THEN 90
  ELSE IF what = "pass"
  THEN IF router = "processor" /\ cherryTimeout > 0 THEN cherryTimeout ELSE 120
  ELSE 0

\* The detached task a handler spawned for the event.
spawnedTask(ev, out, router) ==
  IF out.spawn = "none" THEN NoTask
  ELSE [kind |-> out.spawn, router |-> router, state |-> "spawned", e |-> ev.body.e,
        cherryTimeout |-> 0, deadline |-> taskDeadline(router, out.spawn, 0)]

\* An HTTP request reaches webhook.Server.
DeliverHTTP ==
  /\ process = "up"
  /\ inbound = NoEvent
  /\ \E event \in HeaderEvents, body \in Bodies :
       \E sig \in ProvidedSigs(body) :
         LET ev == Event("http", "request", event, sig, body)
             out == ServeHTTP(event, sig, body)
         IN  /\ inbound' = ev
             /\ response' = [status |-> out.status, err |-> out.err]
             /\ task' = spawnedTask(ev, out, "server")
  /\ UNCHANGED <<dispatched, reversal, ghCalls, notes, process, carriers, expired,
                 orchVars, labelVars, parseVars>>

\* A queue envelope reaches Processor.HandleFromEnvelope.
DeliverEnvelope ==
  /\ process = "up"
  /\ inbound = NoEvent
  /\ \E event \in HeaderEvents, body \in Bodies :
       \E sig \in ProvidedSigs(body) :
         LET ev == Event("envelope", "envelope", event, sig, body)
             out == HandleFromEnvelope(event, sig, body)
         IN  /\ inbound' = ev
             /\ response' = [status |-> out.status, err |-> out.err]
             /\ task' = spawnedTask(ev, out, "processor")
  /\ UNCHANGED <<dispatched, reversal, ghCalls, notes, process, carriers, expired,
                 orchVars, labelVars, parseVars>>

\* An SQS message reaches Worker.handleSQSMessage; raw GitHub JSON has no
\* headers.
DeliverSQS ==
  /\ process = "up"
  /\ inbound = NoEvent
  /\ \E shape \in {"envelope", "raw"}, event \in HeaderEvents, body \in Bodies :
       \E sig \in ProvidedSigs(body) :
         LET m == Event("sqs", shape, event, sig, body)
             msg == [shape |-> shape,
                     headers |-> [present |-> TRUE,
                                  event |-> IF event = "" THEN <<>> ELSE <<event>>,
                                  delivery |-> <<>>],
                     form |-> IF body.json = "empty" THEN "absent" ELSE "object",
                     body |-> body]
             parsed == ParseSQSBody(msg)
             out == handleSQSMessage(msg, <<"m">>, HandleEvent(parsed.event, parsed.payload))
         IN  /\ shape = "raw" => (event = "" /\ sig = NoSig)
             /\ inbound' = m
             /\ response' = [status |-> out.status, err |-> out.err]
             /\ task' = spawnedTask(m, out, "processor")
  /\ UNCHANGED <<dispatched, reversal, ghCalls, notes, process, carriers, expired,
                 orchVars, labelVars, parseVars>>

\* Mutant: a labeled or closed event starts a pass whether merged or not.
dispatchOf_IgnoresMerged(router, e) ==
  IF ~e.installation THEN "noinst"
  ELSE IF e.action = "closed" \/ e.action = "labeled" THEN "pass"
  ELSE IF router = "processor" /\ e.action = "unlabeled" /\ e.merged /\ e.label.present
  THEN "unlabel"
  ELSE "skip"

\* The switch of handlePREvent (Server.handlePREvent has no unlabeled case).
dispatchOf(router, e) ==
  IF ~e.installation THEN "noinst"
  ELSE IF (e.action = "closed" /\ e.merged) \/ (e.action = "labeled" /\ e.merged) THEN "pass"
  ELSE IF router = "processor" /\ e.action = "unlabeled" /\ e.merged /\ e.label.present
  THEN "unlabel"
  ELSE "skip"

\* If labeled after merge, process only that label.
targetsOverrideOf(e) ==
  IF e.action = "labeled" /\ e.merged /\ e.label.present
  THEN targetsOfLabel[e.label]
  ELSE <<>>

\* The merge SHA of the unlabel reversal: the recorded one, else the last
\* listed commit; a failed listing leaves it empty.
unlabelSHA(listOK) ==
  IF sourcePR.sha /= NoSHA THEN sourcePR.sha
  ELSE IF listOK /\ Len(sourcePR.commits) > 0 THEN sourcePR.commits[Len(sourcePR.commits)]
  ELSE NoSHA

\* The unlabeled case of handlePREvent up to its loop: whether the loop is
\* entered, over which targets and SHA, and the calls made on the way.
unlabelPrelude(e, clientsOK, getOK, listOK) ==
  LET targets == targetsOfLabel[e.label]
      sha == unlabelSHA(listOK)
      stop(calls) == [loop |-> FALSE, targets |-> targets, sha |-> NoSHA, calls |-> calls]
      listed == IF sourcePR.sha = NoSHA THEN {"PR.ListCommits"} ELSE {}
  IN  IF Len(targets) = 0 THEN stop({})
      ELSE IF ~clientsOK THEN stop({"NewClients"})
      ELSE IF ~getOK THEN stop({"NewClients", "PR.Get"})
      ELSE IF sha = NoSHA THEN stop({"NewClients", "PR.Get"} \cup listed)
      ELSE [loop |-> TRUE, targets |-> targets, sha |-> sha,
            calls |-> {"NewClients", "PR.Get"} \cup listed]

\* The detached task of a pull_request event: handlePREvent.
HandlePREvent ==
  /\ process = "up"
  /\ task.kind = "pull_request"
  /\ task.state = "spawned"
  /\ LET e == task.e
         d == dispatchOf(task.router, e)
     IN  \/ /\ d = "pass"
            /\ dispatched' = [what |-> "pass", override |-> targetsOverrideOf(e)]
            /\ \E to \in {-1, 0, 600} :
                 task' = [task EXCEPT !.state = "pass", !.cherryTimeout = to,
                                      !.deadline = taskDeadline(task.router, "pass", to)]
            /\ UNCHANGED <<reversal, ghCalls>>
         \/ /\ d = "unlabel"
            /\ \E clientsOK, getOK, listOK \in BOOLEAN :
                 LET r == unlabelPrelude(e, clientsOK, getOK, listOK)
                 IN  /\ dispatched' = [what |-> "unlabel", override |-> <<>>]
                     /\ reversal' = [targets |-> r.targets, idx |-> 1, sha |-> r.sha,
                                      log |-> <<>>]
                     /\ ghCalls' = ghCalls \cup r.calls
                     /\ task' = [task EXCEPT
                                   !.state = IF r.loop THEN "unlabel" ELSE "returned",
                                   !.deadline = taskDeadline(task.router, "unlabel", 0)]
         \/ /\ d \in {"noinst", "skip"}
            /\ task' = [task EXCEPT !.state = "returned"]
            /\ UNCHANGED <<dispatched, reversal, ghCalls>>
  /\ UNCHANGED <<inbound, response, notes, process, carriers, expired, orchVars, labelVars,
                 parseVars>>

\* Mutant: a not-found answer of DeleteRef is returned as an error.
unlabelError_NotFoundIsError(listOK, deleteResult) ==
  ~listOK \/ deleteResult \in {"error", "notfound"}

\* Whether processUnlabeled returns an error: the error of PR().List, or the
\* error of DeleteRef unless it is not-found.
unlabelError(listOK, deleteResult) ==
  ~listOK \/ deleteResult = "error"

\* Mutant: a failed listing does not end processUnlabeled; DeleteRef is still
\* called.
processUnlabeled_DeletesAfterListError(target, workBranch) ==
  LET found == listOpenPRs(workBranch, target)
      deleteResults == IF workBranch \in refs THEN {"deleted", "error"}
                       ELSE {"notfound", "error"}
      outcome(listOK, closed, deleteResult) ==
        [target |-> target, workBranch |-> workBranch, listOK |-> listOK,
         edited |-> IF listOK THEN found ELSE {}, closed |-> closed,
         delete |-> deleteResult, err |-> unlabelError(listOK, deleteResult)]
  IN  {outcome(listOK, closed, deleteResult) :
         listOK \in BOOLEAN, closed \in {{}}, deleteResult \in deleteResults}
        \cup {outcome(TRUE, closed, deleteResult) :
                closed \in SUBSET found, deleteResult \in deleteResults}

\* processUnlabeled(target, workBranch): what it can do.  Every listed pull
\* request gets a PR().Edit(state=closed) call, whose error is dropped; closed
\* are the ones whose call succeeded.  Then DeleteRef is called: the ref is
\* deleted or the call fails; an absent ref is answered with not-found.
processUnlabeled(target, workBranch) ==
  LET found == listOpenPRs(workBranch, target)
      deleteResults == IF workBranch \in refs THEN {"deleted", "error"}
                       ELSE {"notfound", "error"}
      outcome(listOK, closed, deleteResult) ==
        [target |-> target, workBranch |-> workBranch, listOK |-> listOK,
         edited |-> IF listOK THEN found ELSE {}, closed |-> closed,
         delete |-> deleteResult, err |-> unlabelError(listOK, deleteResult)]
  IN  {outcome(FALSE, {}, "none")}
        \cup {outcome(TRUE, closed, deleteResult) :
                closed \in SUBSET found, deleteResult \in deleteResults}

\* The open pull requests and the refs after processUnlabeled did o.
prsAfter(o) == prs \ o.closed
\* Mutant: the ref stays whatever DeleteRef answered.
refsAfter_Keeps(o) == refs

refsAfter(o) == IF o.delete = "deleted" THEN refs \ {o.workBranch} ELSE refs

\* One iteration of the loop of the unlabeled case: processUnlabeled for the
\* target and, when it returned nil, the comment.
ProcessUnlabeled ==
  /\ process = "up"
  /\ task.state = "unlabel"
  /\ LET target == reversal.targets[reversal.idx]
         workBranch == workBranchOf(target, reversal.sha)
     IN  \E o \in processUnlabeled(target, workBranch) :
           /\ prs' = prsAfter(o)
           /\ refs' = refsAfter(o)
           /\ ghCalls' = ghCalls \cup {"PR.List"}
                           \cup (IF o.edited /= {} THEN {"PR.Edit"} ELSE {})
                           \cup (IF o.listOK THEN {"Git.DeleteRef"} ELSE {})
                           \cup (IF ~o.err THEN {"Issues.CreateComment"} ELSE {})
           /\ notes' = IF ~o.err
                       THEN Append(notes, [target |-> target, workBranch |-> workBranch])
                       ELSE notes
           /\ reversal' = [reversal EXCEPT !.idx = @ + 1, !.log = Append(@, o)]
  /\ task' = [task EXCEPT !.state = IF reversal.idx + 1 > Len(reversal.targets)
                                    THEN "returned" ELSE "unlabel"]
  /\ UNCHANGED <<inbound, response, dispatched, process, carriers, expired, passVars, labelVars,
                 parseVars>>

\* Worker.Run after handleSQSMessage returned for the message: the deletion
\* decision and, if so decided, DeleteMessage (its error is only logged).
AckMessage ==
  /\ process = "up"
  /\ inbound.path = "sqs"
  /\ worker.pc = "idle"
  /\ \E DeleteOn4xx \in BOOLEAN, deleteOK \in BOOLEAN :
       LET delete == shouldDelete(response.status, DeleteOn4xx)
       IN  worker' = [pc |-> "decided", DeleteOn4xx |-> DeleteOn4xx, delete |-> delete,
                      deleteOK |-> delete /\ deleteOK]
  /\ UNCHANGED <<parseIn, parseOut, git, inbound, response, task, dispatched, reversal,
                 ghCalls, notes, process, carriers, expired, orchVars, labelVars>>

\* A panic inside the running detached task: the deferred recover() of the
\* pull_request goroutine logs it and the goroutine ends; in a goroutine
\* without one the Go runtime ends the program.
TaskPanics ==
  /\ process = "up"
  /\ task.state \in {"spawned", "pass", "unlabel"}
  /\ IF recoversPanic(task.kind)
     THEN task' = [task EXCEPT !.state = "panicked"] /\ process' = process
     ELSE task' = task /\ process' = "crashed"
  /\ UNCHANGED <<inbound, response, dispatched, reversal, ghCalls, notes, carriers,
                 expired, orchVars, labelVars, parseVars>>

RouterIdle ==
  /\ inbound = NoEvent
  /\ response = [status |-> 0, err |-> FALSE]
  /\ task = NoTask
  /\ dispatched = [what |-> "nothing", override |-> <<>>]
  /\ reversal = NoReversal
  /\ ghCalls = {}
  /\ notes = <<>>
  /\ process = "up"
  /\ carriers = {}
  /\ expired = {}

\* ------------------------------------------------------- label lifecycle
Digits == <<"0", "1", "2", "3", "4", "5", "6", "7", "8", "9">>
IsDigit(c) == \E k \in 1..Len(Digits) : Digits[k] = c
digitValue(c) == (CHOOSE k \in 1..Len(Digits) : Digits[k] = c) - 1

\* A Go int (64 bits, two's complement) as four 16-bit limbs, lowest first.
Limb == 65536
Int64MinusOne == <<Limb - 1, Limb - 1, Limb - 1, Limb - 1>>

\* n*10 + d in int arithmetic: the carry out of the highest limb is lost.
int64MulAdd(n, d) ==
  LET t1 == n[1] * 10 + d
      t2 == n[2] * 10 + (t1 \div Limb)
      t3 == n[3] * 10 + (t2 \div Limb)
      t4 == n[4] * 10 + (t3 \div Limb)
  IN  <<t1 % Limb, t2 % Limb, t3 % Limb, t4 % Limb>>

\* n < 0
int64Negative(n) == n[4] >= Limb \div 2

\* a < b on ints.
int64Less(a, b) ==
  IF int64Negative(a) /= int64Negative(b) THEN int64Negative(a)
  ELSE \E k \in 1..4 : a[k] < b[k] /\ \A j \in (k + 1)..4 : a[j] = b[j]

RECURSIVE parseIntFrom(_, _)
parseIntFrom(n, s) ==
  IF s = <<>> THEN n
  ELSE IF ~IsDigit(Head(s)) THEN Int64MinusOne
  ELSE parseIntFrom(int64MulAdd(n, digitValue(Head(s))), Tail(s))

\* parseInt: best-effort atoi, -1 on the empty string and on a non-digit.
parseInt(s) == IF s = <<>> THEN Int64MinusOne ELSE parseIntFrom(<<0, 0, 0, 0>>, s)

DashRelease == <<"-", "r", "e", "l", "e", "a", "s", "e">>
CherryPickTo ==
  <<"c", "h", "e", "r", "r", "y", "-", "p", "i", "c", "k", " ", "t", "o", " ">>

NoMatch == [ok |-> FALSE, fam |-> <<>>, num |-> <<>>]

\* ^([a-z0-9-]+-release)/(\d+)$ on s: neither group can hold a "/", so s has
\* exactly one; the family is what stands before it and the digits after it.
reRelease(s) ==
  LET slashes == {k \in 1..Len(s) : s[k] = "/"}
      k == CHOOSE j \in slashes : TRUE
      fam == SubSeq(s, 1, k - 1)
      num == SubSeq(s, k + 1, Len(s))
  IN  IF Cardinality(slashes) /= 1 THEN NoMatch
      ELSE IF /\ \A j \in 1..Len(fam) :
                   \/ \E c \in 1..Len(LowerCase) : LowerCase[c] = fam[j]
                   \/ IsDigit(fam[j])
                   \/ fam[j] = "-"
              /\ Len(fam) > Len(DashRelease)
              /\ SubSeq(fam, Len(fam) - Len(DashRelease) + 1, Len(fam)) = DashRelease
              /\ num /= <<>>
              /\ \A j \in 1..Len(num) : IsDigit(num[j])
           THEN [ok |-> TRUE, fam |-> fam, num |-> num]
           ELSE NoMatch

\* handleCreateEvent: ^([a-z0-9-]+-release)/(\d{4})$
reReleaseBranch(ref) ==
  LET m == reRelease(ref)
  IN  IF m.ok /\ Len(m.num) = 4 THEN m ELSE NoMatch

\* enforceLabelRetention: ^cherry-pick to ([a-z0-9-]+-release)/(\d+)$
reRetentionLabel(name) ==
  IF HasPrefix(name, CherryPickTo) THEN reRelease(TrimPrefix(name, CherryPickTo)) ELSE NoMatch

\* Branch and label names of the model.
FamA == <<"a">> \o DashRelease
FamB == <<"b">> \o DashRelease
Release(fam, num) == fam \o <<"/">> \o num
RetentionLabel(fam, num) == CherryPickTo \o Release(fam, num)

\* The digits after the "/" in the names of the model; huge is 2^64 + 1.
ReleaseNums ==
  [n0002 |-> <<"0", "0", "0", "2">>, n2 |-> <<"2">>, n0003 |-> <<"0", "0", "0", "3">>,
   n0007 |-> <<"0", "0", "0", "7">>, n9 |-> <<"9">>, n10 |-> <<"1", "0">>,
   huge |-> <<"1", "8", "4", "4", "6", "7", "4", "4", "0", "7", "3", "7", "0", "9", "5",
              "5", "1", "6", "1", "7">>]

\* The refs of create events.
CreateRefs ==
  {Release(FamA, ReleaseNums.n0007), Release(FamA, ReleaseNums.n0002),
   Release(FamB, ReleaseNums.n0007), Release(FamA, ReleaseNums.n10),
   Release(<<"A">> \o DashRelease, ReleaseNums.n0007),
   Release(DashRelease, ReleaseNums.n0007), TargetMain}

\* What the loop over the listed labels makes of a name: whether it enters a
\* bucket, which one, and with which number.
retentionItem ==
  [name \in {RetentionLabel(FamA, ReleaseNums[n]) : n \in DOMAIN ReleaseNums} \cup {RetentionLabel(FamB, ReleaseNums.n0002), RetentionLabel(FamB, ReleaseNums.n0007), RetentionLabel(<<"A">> \o DashRelease, ReleaseNums.n0002), LabelBug} \cup {CherryPickTo \o ref : ref \in CreateRefs} |->
     LET m == reRetentionLabel(name)
         num == parseInt(m.num)
     IN  [ok |-> m.ok /\ ~int64Negative(num), fam |-> m.fam, n |-> num]]

\* items[0 : len(items)-keep] after sort.Slice by n: the sort is not stable,
\* so items with equal n can come in any order.
toDeleteChoices(items, keep) ==
  IF Cardinality(items) <= keep THEN {{}}
  ELSE {D \in SUBSET items :
          /\ Cardinality(D) = Cardinality(items) - keep
          /\ \A d \in D, r \in items \ D :
               ~int64Less(retentionItem[r].n, retentionItem[d].n)}

\* Mutant: only a negative keep disables retention.
retentionDisabled_OnlyNegative(keep) == keep < 0

\* if keep <= 0 { return nil }
retentionDisabled(keep) == keep <= 0

\* handleCreateEvent passes 5.
RetentionKeep == 5

LabelCall(op, arg, ok) == [op |-> op, arg |-> arg, ok |-> ok]

NoLabelTask ==
  [pc |-> "idle",
   e |-> [refType |-> "", ref |-> <<>>, repo |-> FALSE, installation |-> FALSE],
   label |-> <<>>, present |-> FALSE, ensured |-> "none"]
NoRetention ==
  [state |-> "idle", keep |-> 0, listed |-> {}, pending |-> {}, fam |-> <<>>, err |-> FALSE]

LabelIdle ==
  /\ repoLabels = {}
  /\ labelled = {}
  /\ labelTask = NoLabelTask
  /\ retention = NoRetention
  /\ labelCalls = <<>>

\* Mutant: the label is created although listing the labels failed.
ensureLabel_CreatesOnListError(name, listOK, createOK) ==
  IF listOK /\ name \in repoLabels
  THEN [calls |-> <<LabelCall("Issues.ListLabels", <<>>, TRUE)>>, err |-> FALSE,
        created |-> FALSE]
  ELSE [calls |-> <<LabelCall("Issues.ListLabels", <<>>, listOK),
                    LabelCall("Issues.CreateLabel", name, createOK)>>,
        err |-> ~createOK, created |-> createOK]

\* ensureLabel: list, look for the exact name, create when it is absent.
ensureLabel(name, listOK, createOK) ==
  IF ~listOK
  THEN [calls |-> <<LabelCall("Issues.ListLabels", <<>>, FALSE)>>, err |-> TRUE,
        created |-> FALSE]
  ELSE IF name \in repoLabels
  THEN [calls |-> <<LabelCall("Issues.ListLabels", <<>>, TRUE)>>, err |-> FALSE,
        created |-> FALSE]
  ELSE [calls |-> <<LabelCall("Issues.ListLabels", <<>>, TRUE),
                    LabelCall("Issues.CreateLabel", name, createOK)>>,
        err |-> ~createOK, created |-> createOK]

\* Mutant: every branch creation is taken for a release branch.
createIgnored_AnyBranch(e) == e.refType /= "branch" \/ ~e.repo

\* handleCreateEvent returns at once: not a branch, no repository, or the
\* name is not a release branch.
createIgnored(e) ==
  e.refType /= "branch" \/ ~e.repo \/ ~reReleaseBranch(e.ref).ok

\* handleCreateEvent up to the call of enforceLabelRetention.
HandleCreateEvent ==
  /\ labelTask.pc = "idle"
  /\ retention.state = "idle"
  /\ \E e \in [refType : {"branch", "tag"}, ref : CreateRefs, repo : BOOLEAN, installation : BOOLEAN], clientsOK, listOK, createOK \in BOOLEAN :
       LET label == CherryPickTo \o e.ref
           r == ensureLabel(label, listOK, createOK)
       IN  IF createIgnored(e) \/ ~e.installation \/ ~clientsOK
           THEN /\ labelTask' = [pc |-> "returned", e |-> e, label |-> <<>>,
                                 present |-> FALSE,
                                 ensured |-> IF createIgnored(e) THEN "ignored"
                                             ELSE IF ~e.installation THEN "noinst"
                                             ELSE "noclients"]
                /\ UNCHANGED <<repoLabels, retention, labelCalls>>
           ELSE /\ labelTask' = [pc |-> "retention", e |-> e, label |-> label,
                                 present |-> label \in repoLabels,
                                 ensured |-> IF r.err THEN "error" ELSE "ok"]
                /\ repoLabels' = IF r.created THEN repoLabels \cup {label} ELSE repoLabels
                /\ labelCalls' = labelCalls \o r.calls
                /\ retention' = [NoRetention EXCEPT !.state = "called", !.keep = RetentionKeep]
  /\ UNCHANGED <<labelled, orchVars, routerVars, parseVars>>

\* The sets of labels the loop over the buckets can pick for deletion:
\* buckets[fam] holds the listed labels of family fam.
RECURSIVE pendingChoices(_, _, _)
pendingChoices(fams, listed, keep) ==
  IF fams = {} THEN {{}}
  ELSE LET fam == CHOOSE f \in fams : TRUE
           bucket == {l \in listed : retentionItem[l].ok /\ retentionItem[l].fam = fam}
       IN  {D \cup R : D \in toDeleteChoices(bucket, keep),
                       R \in pendingChoices(fams \ {fam}, listed, keep)}

\* enforceLabelRetention up to the loop over the buckets.
EnforceLabelRetention ==
  /\ retention.state = "called"
  /\ IF retentionDisabled(retention.keep)
     THEN /\ retention' = [retention EXCEPT !.state = "returned"]
          /\ UNCHANGED labelCalls
     ELSE \E listOK \in BOOLEAN :
            /\ labelCalls' = Append(labelCalls, LabelCall("Issues.ListLabels", <<>>, listOK))
            /\ IF ~listOK
               THEN retention' = [retention EXCEPT !.state = "returned", !.err = TRUE]
               ELSE \E pending \in pendingChoices(
                                    {retentionItem[l].fam :
                                       l \in {x \in repoLabels : retentionItem[x].ok}},
                                    repoLabels, retention.keep) :
                      retention' = [retention EXCEPT
                                      !.state = IF pending = {} THEN "returned" ELSE "deleting",
                                      !.listed = repoLabels,
                                      !.pending = pending]
  /\ labelTask' = [labelTask EXCEPT !.pc = IF retention'.state = "returned"
                                           THEN "returned" ELSE @]
  /\ UNCHANGED <<repoLabels, labelled, orchVars, routerVars, parseVars>>

\* The merge SHA cleanupForLabel finds for the pull request.
cleanupSHA(listOK) ==
  IF sourcePR.sha /= NoSHA THEN sourcePR.sha
  ELSE IF listOK /\ Len(sourcePR.commits) > 0 THEN sourcePR.commits[Len(sourcePR.commits)]
  ELSE NoSHA

\* Mutant: the cleanup of a label does nothing.
cleanupForLabel_Nothing(labelName) ==
  {[calls |-> <<>>, err |-> FALSE, prs |-> prs, refs |-> refs]}

\* What cleanupForLabel(labelName) can do: its calls in order (the close calls
\* of processUnlabeled, then its result), the open pull requests and the refs
\* it leaves, and the error it returns.
cleanupForLabel(labelName) ==
  LET target == TrimSpace(TrimPrefix(labelName, CherryPickTo))
      listIssues(ok) == LabelCall("Issues.ListByRepo", labelName, ok)
      result(calls, err, newPRs, newRefs) ==
        [calls |-> calls, err |-> err, prs |-> newPRs, refs |-> newRefs]
      skipped(calls) == result(<<listIssues(TRUE)>> \o calls, FALSE, prs, refs)
      commitCalls(listOK) ==
        IF sourcePR.sha = NoSHA THEN <<LabelCall("PR.ListCommits", <<>>, listOK)>> ELSE <<>>
      RECURSIVE editCalls(_, _)
      editCalls(todo, closed) ==
        IF todo = {} THEN <<>>
        ELSE LET q == CHOOSE x \in todo : TRUE
             IN  <<LabelCall("PR.Edit", q.head, q \in closed)>>
                   \o editCalls(todo \ {q}, closed)
      cleaned(listOK, o) ==
        result(<<listIssues(TRUE), LabelCall("PR.Get", <<>>, TRUE)>> \o commitCalls(listOK)
                 \o editCalls(o.edited, o.closed)
                 \o <<LabelCall("processUnlabeled", o.workBranch, ~o.err)>>
                 \o (IF o.err THEN <<>>
                     ELSE <<LabelCall("Issues.CreateComment", o.workBranch, TRUE)>>),
               FALSE, prsAfter(o), refsAfter(o))
  IN  IF ~HasPrefix(labelName, CherryPickTo) \/ target = <<>>
      THEN {result(<<>>, FALSE, prs, refs)}
      ELSE {result(<<listIssues(FALSE)>>, TRUE, prs, refs)}
             \cup (IF labelName \notin labelled
                   THEN {skipped(<<>>)}
                   ELSE {skipped(<<LabelCall("PR.Get", <<>>, FALSE)>>),
                         skipped(<<LabelCall("PR.Get", <<>>, TRUE)>>)}
                          \cup UNION {
                                 IF cleanupSHA(listOK) = NoSHA
                                 THEN {skipped(<<LabelCall("PR.Get", <<>>, TRUE)>>
                                                 \o commitCalls(listOK))}
                                 ELSE {cleaned(listOK, o) :
                                         o \in processUnlabeled(
                                                 target,
                                                 workBranchOf(target, cleanupSHA(listOK)))}
                                 : listOK \in BOOLEAN})

\* One iteration of the loop over toDelete: cleanupForLabel, then DeleteLabel
\* (its error is dropped).  The buckets are taken in any order, the labels of
\* a bucket in the order sort.Slice left them in.
DeleteOldLabel ==
  /\ retention.state = "deleting"
  /\ \E l \in retention.pending :
       LET fam == retentionItem[l].fam
           rest == retention.pending \ {l}
           restOfFam == {o \in rest : retentionItem[o].fam = fam}
       IN  /\ retention.fam \in {<<>>, fam}
           /\ \A o \in restOfFam : ~int64Less(retentionItem[o].n, retentionItem[l].n)
           /\ \E c \in cleanupForLabel(l), deleteOK \in BOOLEAN :
                /\ prs' = c.prs
                /\ refs' = c.refs
                /\ labelCalls' = labelCalls \o c.calls
                                   \o <<LabelCall("Issues.DeleteLabel", l, deleteOK)>>
                /\ repoLabels' = IF deleteOK THEN repoLabels \ {l} ELSE repoLabels
           /\ retention' = [retention EXCEPT
                              !.pending = rest,
                              !.fam = IF restOfFam = {} THEN <<>> ELSE fam,
                              !.state = IF rest = {} THEN "returned" ELSE "deleting"]
           /\ labelTask' = [labelTask EXCEPT !.pc = IF rest = {} THEN "returned" ELSE @]
  /\ UNCHANGED <<labelled, passVars, routerVars, parseVars>>

\* ------------------------------------------------------- label deletion
\* Mutant: the scan takes every open pull request with the head prefix,
\* whatever its base.
cleanupOpenAutoCherryForTarget_AnyBase(target) ==
  LET prefix == AutocherryPrefix \o ReplaceAll(target, "/", "-") \o <<"/">>
      matching == {q \in prs : HasPrefix(q.head, prefix)}
  IN  {[calls |-> <<LabelCall("PR.List", target, TRUE)>>, err |-> FALSE,
        prs |-> prs \ matching, refs |-> refs \ {q.head : q \in matching}]}

\* What cleanupOpenAutoCherryForTarget(target) can do: its calls in order (the
\* open pull requests with base target are listed; each one whose head starts
\* with autocherry/<safeTarget>/ is closed and its head ref deleted, both
\* best-effort), the open pull requests and the refs it leaves, and its error.
cleanupOpenAutoCherryForTarget(target) ==
  LET prefix == AutocherryPrefix \o ReplaceAll(target, "/", "-") \o <<"/">>
      matching == {q \in prs : q.base = target /\ HasPrefix(q.head, prefix)}
      RECURSIVE loop(_, _, _)
      loop(todo, editOK, deleteOK) ==
        IF todo = {} THEN <<>>
        ELSE LET q == CHOOSE x \in todo : TRUE
             IN  <<LabelCall("PR.Edit", q, q \in editOK),
                   LabelCall("Git.DeleteRef", q.head, q \in deleteOK)>>
                   \o loop(todo \ {q}, editOK, deleteOK)
  IN  IF target = <<>>
      THEN {[calls |-> <<>>, err |-> FALSE, prs |-> prs, refs |-> refs]}
      ELSE {[calls |-> <<LabelCall("PR.List", target, FALSE)>>, err |-> TRUE,
             prs |-> prs, refs |-> refs]}
             \cup {[calls |-> <<LabelCall("PR.List", target, TRUE)>>
                               \o loop(matching, editOK, deleteOK),
                    err |-> FALSE,
                    prs |-> prs \ editOK,
                    refs |-> refs \ {q.head : q \in deleteOK}] :
                     editOK \in SUBSET matching,
                     deleteOK \in SUBSET {q \in matching : q.head \in refs}}

\* What removeLabelFromOpenPRs(label) can do: the open issues that carry the
\* label are listed and the label is removed from each, best-effort.
removeLabelFromOpenPRs(label) ==
  LET issues == SelectSeq(<<1, 2>>, LAMBDA i : i \in carriers)
      listIssues(ok) == LabelCall("Issues.ListByRepo", label, ok)
  IN  {[calls |-> <<listIssues(FALSE)>>, err |-> TRUE, carriers |-> carriers]}
        \cup {[calls |-> <<listIssues(TRUE)>>
                          \o [k \in 1..Len(issues) |->
                                LabelCall("Issues.RemoveLabelForIssue", issues[k],
                                          issues[k] \in removed)],
               err |-> FALSE,
               carriers |-> carriers \ removed] : removed \in SUBSET carriers}

\* The detached task of a label event: the goroutine of the label case of
\* HandleFromEnvelope.
HandleLabelEvent ==
  /\ process = "up"
  /\ task.kind = "label"
  /\ task.state = "spawned"
  /\ LET e == task.e
         labelName == e.label.name
         target == TrimSpace(TrimPrefix(labelName, CherryPickTo))
     IN  IF \/ e.action /= "deleted" \/ ~e.repo \/ ~e.label.present
            \/ ~HasPrefix(labelName, CherryPickTo)
            \/ ~e.installation
         THEN UNCHANGED <<dispatched, carriers, prs, refs, labelCalls>>
         ELSE /\ dispatched' = [what |-> "labelcleanup",
                                override |-> IF target = <<>> THEN <<>> ELSE <<target>>]
              /\ \/ UNCHANGED <<carriers, prs, refs, labelCalls>>
                 \/ \E r \in removeLabelFromOpenPRs(labelName) :
                      /\ carriers' = r.carriers
                      /\ \E c \in cleanupOpenAutoCherryForTarget(target) :
                           /\ prs' = c.prs
                           /\ refs' = c.refs
                           /\ labelCalls' = labelCalls \o r.calls \o c.calls
  /\ task' = [task EXCEPT !.state = "returned"]
  /\ UNCHANGED <<inbound, response, reversal, ghCalls, notes, process, expired,
                 passVars, repoLabels, labelled, labelTask, retention, parseVars>>

\* ------------------------------------------------------ the label parser

\* The labels a pull request can carry.
ParserLabels ==
  Labels
    \cup {Label(<<"c", "h", "e", "r", "r", "y", "p", "i", "c", "k", " ", "t", "o", " ",
                  "r", "e", "f", "s", "/", "h", "e", "a", "d", "s", "/",
                  "r", "e", "f", "s", "/", "h", "e", "a", "d", "s", "/", "m">>),
          Label(<<"c", "h", "e", "r", "r", "y", " ", "p", "i", "c", "k", "\t", "t", "o",
                  " ", "m", " ", "r", "/", "1">>)}

\* Longest label list handed to ParseTargetBranches.
MaxLabels == 3

ParserIdle ==
  /\ parseIn = <<>>
  /\ parseOut = [done |-> FALSE, out |-> <<>>]
  /\ git = [done |-> FALSE]
  /\ worker = [pc |-> "idle"]

\* ---------------------------------------------------- git work executor

\* The error of a failed runner step, as the fragments of its text.  A
\* gitexec.Runner step fails with the error of Runner.run, "<name> <args>
\* failed: <err>", where err is the exit error of the command and the output
\* of git is only logged; a runner injected through newGitRunner returns the
\* error it was given, here one whose text is what git printed.
runError(runner, step, output) ==
  IF runner = "gitexec.Runner" THEN {"git", step, "failed:", "exit status 1"}
  ELSE {output}

\* isNoopCherryPickErr: the text of the error contains one of the three
\* phrases.
isNoopCherryPickErr(err) ==
  \E phrase \in {"previous cherry-pick is now empty", "nothing to commit",
                  "working tree clean"} : phrase \in err

\* Mutant: Clean runs only after a successful push.
doCherryPick_CleanOnSuccess(in) ==
  IF \A k \in 1..6 : in.outputs[k] = "ok"
  THEN [calls |-> <<"CloneWithToken", "ConfigUser", "Fetch", "CheckoutBranchFrom",
                    IF in.mainline > 0 THEN "CherryPickWithMainline" ELSE "CherryPick",
                    "Push", "Clean">>,
        pushed |-> <<runnerWorkBranch(in.targetBranch, in.sha)>>,
        branch |-> runnerWorkBranch(in.targetBranch, in.sha), err |-> "none"]
  ELSE [calls |-> <<>>, pushed |-> <<>>, branch |-> <<>>, err |-> "error"]

\* doCherryPick: the runner calls in order (the deferred Clean last), the
\* branches pushed, the branch name returned and the error: "noop" is
\* ErrNoopCherryPick, "conflict" the wrapped cherry-pick error, "error" any
\* other.  in.outputs[k] is "ok" or what git printed when step k failed.
doCherryPick(in) ==
  LET steps == <<"CloneWithToken", "ConfigUser", "Fetch", "CheckoutBranchFrom",
                 IF in.mainline > 0 THEN "CherryPickWithMainline" ELSE "CherryPick",
                 "Push">>
      failed == {k \in 1..Len(steps) : in.outputs[k] /= "ok"}
      last == IF failed = {} THEN Len(steps) ELSE MinOf(failed)
      workBranch == runnerWorkBranch(in.targetBranch, in.sha)
      result(err) ==
        [calls |-> SubSeq(steps, 1, last) \o <<"Clean">>,
         pushed |-> IF err = "none" THEN <<workBranch>> ELSE <<>>,
         branch |-> IF err = "none" THEN workBranch ELSE <<>>,
         err |-> err]
  IN  IF ~in.created
      THEN [calls |-> <<>>, pushed |-> <<>>, branch |-> <<>>, err |-> "error"]
      ELSE IF failed = {} THEN result("none")
      ELSE IF last = 5
      THEN IF isNoopCherryPickErr(runError(in.runner, steps[last], in.outputs[last]))
           THEN result("noop")
           ELSE result("conflict")
      ELSE result("error")

\* DoCherryPick (mainline 0) or DoCherryPickWithMainline is called.
DoCherryPick ==
  /\ ~git.done
  /\ git' = [git EXCEPT !.done = TRUE] @@ doCherryPick(git)
  /\ UNCHANGED <<parseIn, parseOut, worker, orchVars, routerVars, labelVars>>

\* queue.ParseSQSBody is called with the body of an SQS message.
ParseSQS ==
  /\ ~parseOut.done
  /\ parseOut' = [done |-> TRUE, out |-> ParseSQSBody(parseIn)]
  /\ UNCHANGED <<parseIn, git, worker, orchVars, routerVars, labelVars>>

\* cherry.ParseTargetBranches is called with the label list.
ParseLabels ==
  /\ ~parseOut.done
  /\ parseOut' = [done |-> TRUE, out |-> ParseTargetBranches(parseIn)]
  /\ UNCHANGED <<parseIn, git, worker, orchVars, routerVars, labelVars>>

\* ------------------------------------------------------------- SQS worker

\* Worker.Run is called: with Client, QueueURL or Processor missing it returns
\* an error; otherwise it enters the loop.
WorkerRun ==
  /\ worker.pc = "called"
  /\ worker' = IF ~worker.Client \/ ~worker.QueueURL \/ ~worker.Processor
               THEN [worker EXCEPT !.pc = "returned", !.ret = "missing"]
               ELSE [worker EXCEPT !.pc = "loop"]
  /\ UNCHANGED <<parseIn, parseOut, git, orchVars, routerVars, labelVars>>

\* The head of the loop: with the context done Run returns ctx.Err();
\* otherwise ReceiveMessage is called, which fails (the back-off follows),
\* returns no message (the loop starts over) or returns the messages of the
\* queue.
ReceiveMessage ==
  /\ worker.pc = "loop"
  /\ \/ /\ worker.ctx = "cancelled"
        /\ worker' = [worker EXCEPT !.pc = "returned", !.ret = "ctx"]
     \/ /\ worker.ctx = "live"
        /\ \E err \in BOOLEAN, out \in {<<>>, worker.queue} :
             /\ err => out = <<>>
             /\ worker' = [worker EXCEPT
                             !.received = TRUE,
                             !.pc = IF err THEN "backoff"
                                    ELSE IF out = <<>> THEN "loop" ELSE "messages",
                             !.queue = IF out = <<>> THEN @ ELSE <<>>,
                             !.batch = out]
  /\ UNCHANGED <<parseIn, parseOut, git, orchVars, routerVars, labelVars>>

\* Mutant: a failed receive ends Run.
Backoff_GivesUp ==
  /\ worker.pc = "backoff"
  /\ worker' = [worker EXCEPT !.pc = "returned",
                              !.ret = IF worker.ctx = "cancelled" THEN "ctx" ELSE "receive"]
  /\ UNCHANGED <<parseIn, parseOut, git, orchVars, routerVars, labelVars>>

\* The back-off after a failed receive: select on ctx.Done() and
\* time.After(2 * time.Second).
Backoff ==
  /\ worker.pc = "backoff"
  /\ \/ /\ worker.ctx = "cancelled"
        /\ worker' = [worker EXCEPT !.pc = "returned", !.ret = "ctx"]
     \/ worker' = [worker EXCEPT !.pc = "loop"]
  /\ UNCHANGED <<parseIn, parseOut, git, orchVars, routerVars, labelVars>>

\* One iteration of the loop over out.Messages: a message without receipt
\* handle is skipped; otherwise handleSQSMessage, the deletion decision and,
\* if so decided, deleteMessage (its error is only logged).  The processor is
\* any Handler: it returns some status and error.
HandleMessage ==
  /\ worker.pc = "messages"
  /\ LET m == Head(worker.batch)
         rest == Tail(worker.batch)
         entry(steps, out, reply, deleteOK) ==
           [id |-> m.id, receipt |-> m.receipt, msg |-> m.msg, steps |-> steps,
            code |-> out.status, err |-> out.err, call |-> out.call,
            reply |-> IF out.call = <<>> THEN <<>> ELSE <<reply>>,
            deleteOK |-> deleteOK]
         after(e) == [worker EXCEPT !.batch = rest,
                                    !.pc = IF rest = <<>> THEN "loop" ELSE "messages",
                                    !.done = @ \o <<e>>]
     IN  \/ /\ ~m.receipt
            /\ worker' = after(entry(<<>>, [status |-> 0, err |-> FALSE, call |-> <<>>],
                                     <<>>, FALSE))
         \/ /\ m.receipt
            /\ \E reply \in [status : {0, 200, 204, 302, 404, 500}, err : BOOLEAN,
                              spawn : {"none"}] :
                 LET out == handleSQSMessage(m.msg, m.id, reply)
                 IN  /\ out.call = <<>> => (reply.status = 0 /\ ~reply.err)
                     /\ IF shouldDelete(out.status, worker.DeleteOn4xx)
                        THEN \E deleteOK \in BOOLEAN :
                               worker' = after(entry(<<"handleSQSMessage", "DeleteMessage">>,
                                                     out, reply, deleteOK))
                        ELSE worker' = after(entry(<<"handleSQSMessage">>, out, reply, FALSE))
  /\ UNCHANGED <<parseIn, parseOut, git, orchVars, routerVars, labelVars>>

\* The context of Run is cancelled.
CancelContext ==
  /\ worker.pc /= "idle"
  /\ worker.ctx = "live"
  /\ worker' = [worker EXCEPT !.ctx = "cancelled"]
  /\ UNCHANGED <<parseIn, parseOut, git, orchVars, routerVars, labelVars>>

\* ------------------------------------------------------------ specifications
\* No pass has started.
PassesIdle ==
  /\ pc = [p \in Passes |-> "idle"]
  /\ passTargets = [p \in Passes |-> <<>>]
  /\ idx = [p \in Passes |-> 1]
  /\ mergeSHA = [p \in Passes |-> NoSHA]
  /\ isMerge = [p \in Passes |-> FALSE]
  /\ workBranchOut = [p \in Passes |-> <<>>]
  /\ posted = [p \in Passes |-> <<>>]
  /\ lookups = {}
  /\ invoked = {}
  /\ pushed = {}
  /\ createCalls = {}
  /\ doneBefore = [p \in Passes |-> {}]

\* The work branch and the pull request an earlier event left for TargetSlash.
EarlierWorkBranch == workBranchOf(TargetSlash, LongSHA)
EarlierPR == [head |-> EarlierWorkBranch, base |-> TargetSlash, by |-> 0]

\* The target branches of the repository: all the labels name, or all but one.
TargetRefs == {Branches} \cup {Branches \ {b} : b \in Branches}

\* A repository an earlier event may have left a work branch and a pull
\* request in.
UsedRepo ==
  /\ refs \in TargetRefs \cup {r \cup {EarlierWorkBranch} : r \in TargetRefs}
  /\ prs \in {{}, {EarlierPR}}

OrchInit(i, deliveries) ==
  /\ impl = i
  /\ passes = deliveries
  /\ sourcePR \in SourcePRs
  /\ prTargets \in {ts \in UNION {[1..k -> Branches] : k \in 0..MaxTargets} :
                     \A x, y \in 1..Len(ts) : x /= y => ts[x] /= ts[y]}
  /\ PassesIdle

vars == <<orchVars, routerVars, labelVars, parseVars>>

\* One delivery of the merged-PR event, processed by Processor.
Init == OrchInit("processor", {1}) /\ UsedRepo /\ RouterIdle /\ LabelIdle /\ ParserIdle

Next ==
  \E p \in Passes :
    \/ StartPass(p)
    \/ CheckTarget(p)
    \/ CheckWorkBranch(p)
    \/ ListExisting(p)
    \/ Pick(p)
    \/ CreatePR(p)

Spec == Init /\ [][Next]_vars

\* The same by webhook.Server.
ServerInit == OrchInit("server", {1}) /\ UsedRepo /\ RouterIdle /\ LabelIdle /\ ParserIdle

ServerSpec == ServerInit /\ [][Next]_vars

\* The delivery and its redelivery, processed by Processor, on a repository
\* no pass has worked on.
RedeliveryInit ==
  OrchInit("processor", Passes) /\ refs \in TargetRefs /\ prs = {} /\ RouterIdle /\ LabelIdle
    /\ ParserIdle

RedeliverySpec == RedeliveryInit /\ [][Next]_vars

\* One pass whose context deadline may pass during the loop.
CancelSpec == Init /\ [][Next \/ \E p \in Passes : Expire(p)]_vars

\* The router with one event.
RouterInit ==
  /\ impl = "processor"
  /\ passes = {}
  /\ sourcePR \in SourcePRs
  /\ prTargets \in {<<>>, <<TargetMain>>}
  /\ refs \in {Branches, Branches \cup {EarlierWorkBranch}}
  /\ prs \in {{}, {EarlierPR}}
  /\ PassesIdle
  /\ RouterIdle
  /\ LabelIdle
  /\ ParserIdle

RouterSpec ==
  RouterInit /\ [][\/ DeliverHTTP \/ DeliverEnvelope \/ DeliverSQS \/ AckMessage
                     \/ HandlePREvent \/ ProcessUnlabeled \/ TaskPanics]_vars

\* The label goroutine just spawned for a label event the envelope handler
\* accepted, on a repository with open pull requests: two opened for r/1, one
\* opened for m, one for r/1 from another head, one with the same head prefix
\* and base r-1; one or two open issues may carry the label.
DeletionInit ==
  /\ impl = "processor"
  /\ passes = {}
  /\ sourcePR = [sha |-> LongSHA, commits |-> <<>>, parents |-> 0]
  /\ prTargets = <<>>
  /\ PassesIdle
  /\ LabelIdle
  /\ ParserIdle
  /\ prs \in SUBSET {EarlierPR,
                     [head |-> workBranchOf(TargetSlash, <<"d", "e", "f">>),
                      base |-> TargetSlash, by |-> 0],
                     [head |-> workBranchOf(TargetMain, LongSHA), base |-> TargetMain, by |-> 0],
                     [head |-> <<"f">>, base |-> TargetSlash, by |-> 0],
                     [head |-> workBranchOf(<<"r", "-", "1">>, <<"d", "e", "f", "0">>),
                      base |-> <<"r", "-", "1">>, by |-> 0]}
  /\ refs = Branches \cup {q.head : q \in prs}
  /\ \E e \in [installation : BOOLEAN, action : {"deleted", "created"}, merged : {FALSE}, repo : BOOLEAN, label : Labels \cup {Label(CherryPickTo \o RefsHeads \o TargetSlash), Label(CherryPickTo \o <<" ">>)}] :
       LET body == Body("valid", "label", e)
           sig == signatureOf(WebhookSecret, body)
           ev == Event("envelope", "envelope", "label", sig, body)
           out == HandleFromEnvelope("label", sig, body)
       IN  /\ inbound = ev
           /\ response = [status |-> out.status, err |-> out.err]
           /\ task = spawnedTask(ev, out, "processor")
  /\ dispatched = [what |-> "nothing", override |-> <<>>]
  /\ reversal = NoReversal
  /\ ghCalls = {}
  /\ notes = <<>>
  /\ process = "up"
  /\ carriers \in SUBSET {1, 2}
  /\ expired = {}

DeletionSpec == DeletionInit /\ [][HandleLabelEvent]_vars

\* handleCreateEvent on a repository with labels, and direct calls of
\* enforceLabelRetention; the merged pull request may carry the label of
\* a-release/0002 and have its auto cherry-pick open.
LabelInit ==
  /\ impl = "processor"
  /\ passes = {}
  /\ prTargets = <<>>
  /\ PassesIdle
  /\ RouterIdle
  /\ ParserIdle
  /\ labelCalls = <<>>
  /\ repoLabels \in (LET a(n) == RetentionLabel(FamA, n) core == {a(ReleaseNums.n0002), a(ReleaseNums.n9), a(ReleaseNums.n10), RetentionLabel(FamB, ReleaseNums.n0002), LabelBug} IN (SUBSET core) \cup {core \cup more : more \in {{a(ReleaseNums.n2)}, {a(ReleaseNums.huge)}, {RetentionLabel(<<"A">> \o DashRelease, ReleaseNums.n0002)}, {a(ReleaseNums.n2), a(ReleaseNums.n0003)}, {a(ReleaseNums.n2), a(ReleaseNums.n0003), a(ReleaseNums.huge)}}})
  /\ \/ /\ labelled = {}
        /\ sourcePR = [sha |-> LongSHA, commits |-> <<>>, parents |-> 0]
        /\ refs = Branches
        /\ prs = {}
     \/ /\ labelled = {RetentionLabel(FamA, ReleaseNums.n0002)}
        /\ sourcePR \in SourcePRs
        /\ \/ refs = Branches /\ prs = {}
           \/ /\ cleanupSHA(TRUE) /= NoSHA
              /\ LET base == Release(FamA, ReleaseNums.n0002)
                     head == workBranchOf(base, cleanupSHA(TRUE))
                 IN  /\ refs = Branches \cup {head}
                     /\ prs = {[head |-> head, base |-> base, by |-> 0]}
  /\ \/ labelTask = NoLabelTask /\ retention = NoRetention
     \/ /\ labelTask = [NoLabelTask EXCEPT !.pc = "direct"]
        /\ \E keep \in {-1, 0, 1, 2} : retention = [NoRetention EXCEPT !.state = "called", !.keep = keep]

LabelSpec == LabelInit /\ [][(\/ HandleCreateEvent \/ EnforceLabelRetention \/ DeleteOldLabel)]_vars

\* ParseTargetBranches on every label list up to MaxLabels labels.
ParserInit ==
  /\ impl = "processor"
  /\ passes = {}
  /\ sourcePR = [sha |-> LongSHA, commits |-> <<>>, parents |-> 0]
  /\ prTargets = <<>>
  /\ refs = Branches
  /\ prs = {}
  /\ PassesIdle
  /\ RouterIdle
  /\ LabelIdle
  /\ parseIn \in (UNION {[1..k -> ParserLabels] : k \in 0..MaxLabels})
  /\ parseOut = [done |-> FALSE, out |-> <<>>]
  /\ git = [done |-> FALSE]
  /\ worker = [pc |-> "idle"]

ParserSpec == ParserInit /\ [][ParseLabels]_vars

\* ParseSQSBody on raw bodies and envelopes: payloads with every combination
\* of the top-level keys, not JSON, empty or blank; the header map nil or
\* present, its event value missing, blank, padded or plain; the body field
\* absent, a string or an object.
SQSInit ==
  /\ impl = "processor"
  /\ passes = {}
  /\ sourcePR = [sha |-> LongSHA, commits |-> <<>>, parents |-> 0]
  /\ prTargets = <<>>
  /\ refs = Branches
  /\ prs = {}
  /\ PassesIdle
  /\ RouterIdle
  /\ LabelIdle
  /\ LET payloads ==
           {[Body("valid", "", EmptyEvent) EXCEPT !.keys = k] :
              k \in [pull_request : BOOLEAN,
                     ref_type : {"absent", "empty", "string", "other"},
                     label : BOOLEAN, action : BOOLEAN]}
             \cup {Body("invalid", "", EmptyEvent), Body("space", "", EmptyEvent), EmptyBody}
     IN  parseIn \in
           [shape : {"raw"}, headers : {[present |-> FALSE, event |-> <<>>]},
            form : {"object"}, body : payloads]
             \cup [shape : {"envelope"},
                   headers : {[present |-> FALSE, event |-> <<>>]}
                               \cup [present : {TRUE},
                                     event : {<<>>, <<" ">>, <<"push">>, <<"pull_request">>,
                                              <<" ", "label", "\t">>}],
                   form : {"string", "object"},
                   body : payloads \ {Body("space", "", EmptyEvent), EmptyBody}]
             \cup [shape : {"envelope"},
                   headers : {[present |-> FALSE, event |-> <<>>]}
                               \cup [present : {TRUE},
                                     event : {<<>>, <<" ">>, <<"pull_request">>}],
                   form : {"absent"}, body : {EmptyBody}]
  /\ parseOut = [done |-> FALSE, out |-> <<>>]
  /\ git = [done |-> FALSE]
  /\ worker = [pc |-> "idle"]

SQSSpec == SQSInit /\ [][ParseSQS]_vars

\* doCherryPick on a runner whose steps succeed or fail: newGitRunner fails
\* or not, the runner is gitexec.Runner or an injected one, the commit is a
\* merge or not, each step succeeds or fails, the cherry-pick with one of the
\* three outputs of an empty pick or with a conflict.
RunnerInit ==
  /\ impl = "processor"
  /\ passes = {}
  /\ sourcePR = [sha |-> LongSHA, commits |-> <<>>, parents |-> 0]
  /\ prTargets = <<>>
  /\ refs = Branches
  /\ prs = {}
  /\ PassesIdle
  /\ RouterIdle
  /\ LabelIdle
  /\ parseIn = <<>>
  /\ parseOut = [done |-> FALSE, out |-> <<>>]
  /\ worker = [pc |-> "idle"]
  /\ git \in [done : {FALSE}, created : BOOLEAN, runner : {"gitexec.Runner", "injected"},
               targetBranch : {TargetSlash}, sha : {LongSHA}, mainline : {0, 1},
               outputs : {o \in [1..6 -> {"ok", "fatal", "CONFLICT",
                                           "previous cherry-pick is now empty",
                                           "nothing to commit", "working tree clean"}] :
                            /\ \A k \in 1..6 \ {5} : o[k] \in {"ok", "fatal"}
                            /\ o[5] /= "fatal"}]

RunnerSpec == RunnerInit /\ [][DoCherryPick]_vars

\* An unlabel reversal for the label of r/1 that has reached its loop, and an
\* event of the same merged pull request (the label added again, or a
\* redelivered close) whose pass is about to start; the repository may hold the
\* work branch and the pull request of an earlier pass.
RaceInit ==
  /\ impl = "processor"
  /\ passes = {1}
  /\ sourcePR \in {pr \in SourcePRs : pr.sha /= NoSHA \/ Len(pr.commits) > 0}
  /\ prTargets \in {<<TargetSlash>>, <<TargetMain, TargetSlash>>}
  /\ LET workBranch == workBranchOf(TargetSlash, unlabelSHA(TRUE))
     IN  /\ refs \in {Branches, Branches \cup {workBranch}}
         /\ prs \in {{}, {[head |-> workBranch, base |-> TargetSlash, by |-> 0]}}
  /\ PassesIdle
  /\ LabelIdle
  /\ ParserIdle
  /\ inbound = NoEvent
  /\ response = [status |-> 0, err |-> FALSE]
  /\ task = [kind |-> "pull_request", router |-> "processor", state |-> "unlabel",
             e |-> [installation |-> TRUE, action |-> "unlabeled", merged |-> TRUE,
                    label |-> Label(LabelCherrySlash)],
             cherryTimeout |-> 0, deadline |-> taskDeadline("processor", "unlabel", 0)]
  /\ dispatched = [what |-> "unlabel", override |-> <<>>]
  /\ reversal = [targets |-> targetsOfLabel[Label(LabelCherrySlash)], idx |-> 1,
                 sha |-> unlabelSHA(TRUE), log |-> <<>>]
  /\ ghCalls = {}
  /\ notes = <<>>
  /\ process = "up"
  /\ carriers = {}
  /\ expired = {}

\* The reversal and the pass, their calls in any order.
RaceSpec == RaceInit /\ [][ProcessUnlabeled \/ Next]_vars

\* Run on a Worker with any of Client, QueueURL and Processor set or not and
\* either deletion policy, on a queue of up to two messages: raw GitHub JSON
\* or envelopes, with or without receipt handle.
WorkerInit ==
  /\ impl = "processor"
  /\ passes = {}
  /\ sourcePR = [sha |-> LongSHA, commits |-> <<>>, parents |-> 0]
  /\ prTargets = <<>>
  /\ refs = Branches
  /\ prs = {}
  /\ PassesIdle
  /\ RouterIdle
  /\ LabelIdle
  /\ parseIn = <<>>
  /\ parseOut = [done |-> FALSE, out |-> <<>>]
  /\ git = [done |-> FALSE]
  /\ LET payload == Body("valid", "pull_request", EmptyEvent)
         other == Body("valid", "push", EmptyEvent)
         noHeaders == [present |-> FALSE, event |-> <<>>, delivery |-> <<>>]
         raw(b) == [shape |-> "raw", headers |-> noHeaders, form |-> "object", body |-> b]
         envelope(event, delivery, form, b) ==
           [shape |-> "envelope",
            headers |-> [present |-> TRUE, event |-> event, delivery |-> delivery],
            form |-> form, body |-> b]
         bodies == {raw(payload), raw(other), raw(Body("invalid", "", EmptyEvent)),
                    raw(Body("space", "", EmptyEvent)),
                    envelope(<<"pull_request">>, <<"d">>, "object", payload),
                    envelope(<<"push">>, <<" ">>, "string", payload),
                    envelope(<<"pull_request">>, <<"d">>, "absent", EmptyBody),
                    [shape |-> "envelope", headers |-> noHeaders, form |-> "object",
                     body |-> other]}
         message(id, receipt, msg) == [id |-> id, receipt |-> receipt, msg |-> msg]
         first == {message(<<"a">>, TRUE, msg) : msg \in bodies}
                    \cup {message(<<"a">>, FALSE, raw(payload))}
         second == {message(<<"b">>, TRUE, msg) : msg \in bodies}
                     \cup {message(<<"b">>, FALSE, raw(payload))}
     IN  worker \in [pc : {"called"}, Client : BOOLEAN, QueueURL : BOOLEAN,
                     Processor : BOOLEAN, DeleteOn4xx : BOOLEAN, ctx : {"live"},
                     received : {FALSE},
                     queue : {<<>>} \cup {<<x>> : x \in first}
                               \cup {<<x, y>> : x \in first, y \in second},
                     batch : {<<>>}, done : {<<>>}, ret : {""}]

WorkerNext ==
  \/ WorkerRun
  \/ ReceiveMessage
  \/ Backoff
  \/ HandleMessage
  \/ CancelContext

WorkerSpec == WorkerInit /\ [][WorkerNext]_vars

\* The worker's goroutine keeps running and its calls return.
WorkerLiveSpec ==
  WorkerInit /\ [][WorkerNext]_vars
    /\ WF_vars(WorkerRun \/ ReceiveMessage \/ Backoff \/ HandleMessage)



\* =================================================================== claims
Finished(p) == pc[p] \in {"done", "aborted"}

\* The comments pass p posted in iteration i of its loop.
CommentsFor(p, i) == {k \in 1..Len(posted[p]) : posted[p][k].for = i}

\* Iteration i of pass p is over.
IterationOver(p, i) == pc[p] = "done" \/ (pc[p] /= "aborted" /\ idx[p] > i)

\* Pass p posted exactly one comment in iteration i, and it satisfies ok(_).
OneComment(p, i, ok(_)) ==
  /\ Cardinality(CommentsFor(p, i)) = 1
  /\ \A k \in CommentsFor(p, i) : ok(posted[p][k])

\* Pass b ran after pass a had returned, for the same targets and commit.
RanTwice(a, b) ==
  /\ a \in doneBefore[b]
  /\ pc[a] = "done" /\ pc[b] = "done"
  /\ passTargets[a] = passTargets[b]
  /\ mergeSHA[a] = mergeSHA[b]

\* C1: processMergedPRWith run twice in sequence for the same merged PR and
\* labels creates at most one pull request and makes at most one successful
\* push per target; for a target whose work branch the first run pushed, the
\* second run does not invoke the runner and posts exactly one informational
\* comment: "already open" with the URL of an open pull request with that
\* head and base if there is one, else "work branch exists".
C1_Idempotent ==
  \A a, b \in Passes :
    RanTwice(a, b) =>
      \A i \in 1..Len(passTargets[b]) :
        LET t == passTargets[b][i]
            wb == runnerWorkBranch(t, mergeSHA[b])
            open == listOpenPRs(wb, t)
        IN  /\ Cardinality({c \in createCalls : c.by \in {a, b} /\ c.base = t /\ c.ok}) <= 1
            /\ Cardinality({u \in pushed : u.by \in {a, b} /\ u.target = t}) <= 1
            /\ (\E u \in pushed : u.by = a /\ u.target = t /\ u.branch = wb) =>
                 /\ ~\E v \in invoked : v.by = b /\ v.target = t
                 /\ OneComment(b, i, LAMBDA c :
                      /\ c.marker = "info"
                      /\ t \in c.names
                      /\ IF open /= {}
                         THEN c.kind = "AlreadyOpen" /\ c.url \in open
                         ELSE c.kind = "BranchExistsNoPR" /\ c.url = NoPR)

\* C2: in every reachable state, concurrent redeliveries included, at most
\* one open pull request has the work branch of a (target, merge commit) pair
\* as head and that target as base.
C2_AtMostOneOpenPR ==
  \A q1, q2 \in prs : (q1.head = q2.head /\ q1.base = q2.base) => q1 = q2

LoopOutcomes ==
  {"Opened", "NoOp", "AlreadyOpen", "BranchExistsNoPR", "TargetMissing", "Conflict",
   "CreateFailed"}

\* C3: in a pass that resolved a merge SHA every target of the pass's list
\* gets exactly one comment, of one of the seven outcomes, by the end of the
\* pass.
C3_OneCommentPerTarget ==
  \A p \in Passes :
    (Finished(p) /\ mergeSHA[p] /= NoSHA) =>
      \A i \in 1..Len(passTargets[p]) :
        OneComment(p, i, LAMBDA c : c.kind \in LoopOutcomes)

\* C4: every target of a pass is attempted, in list order, whatever the
\* outcomes of the earlier targets: the pass ends only after the last
\* target, and the k-th comment is the outcome of the k-th target.
C4_FailureIsolation ==
  \A p \in Passes :
    /\ pc[p] \in {"target", "work", "list", "pick", "create"} =>
         /\ idx[p] \in 1..Len(passTargets[p])
         /\ Len(posted[p]) = idx[p] - 1
    /\ pc[p] = "done" =>
         /\ idx[p] = Len(passTargets[p]) + 1
         /\ Len(posted[p]) = Len(passTargets[p])
    /\ pc[p] \notin {"idle", "aborted"} =>
         \A k \in 1..Len(posted[p]) :
           /\ posted[p][k].for = k
           /\ passTargets[p][k] \in posted[p][k].names
           /\ posted[p][k].kind \in LoopOutcomes

\* C4 witness: a pass whose first target failed and whose second target got
\* its pull request.
C4_Witness ==
  \E p \in Passes :
    /\ pc[p] = "done"
    /\ Len(posted[p]) = 2
    /\ posted[p][1].kind \in {"Conflict", "CreateFailed", "TargetMissing"}
    /\ posted[p][2].kind = "Opened"

\* The success comment of a pushed work branch: one pull request with that
\* head and base, and one comment with the success marker, the target and
\* the URL of the new pull request.
SuccessReported(u) ==
  LET made == {q \in prs : q.by = u.by /\ q.base = u.target}
  IN  /\ Cardinality(made) = 1
      /\ \A q \in made : q.head = u.branch
      /\ OneComment(u.by, u.i, LAMBDA c :
           /\ c.marker = "success"
           /\ u.target \in c.names
           /\ c.url \in made)

\* The work branch did not exist when the pass looked it up.
WorkBranchWasAbsent(u) ==
  \E l \in lookups : l.by = u.by /\ l.i = u.i /\ l.what = "work" /\ ~l.exists

\* C8 as claimed: whenever the target ref exists, the work branch did not
\* exist and cherry-pick and push succeeded, one pull request is created and
\* one success comment is posted.
C8_SuccessPath_Claimed ==
  \A u \in pushed :
    (IterationOver(u.by, u.i) /\ WorkBranchWasAbsent(u)) => SuccessReported(u)

\* C8, amended: the same, when the pull-request creation call succeeds too.
C8_SuccessPath ==
  \A u \in pushed :
    (/\ IterationOver(u.by, u.i)
     /\ WorkBranchWasAbsent(u)
     /\ \E c \in createCalls : c.by = u.by /\ c.i = u.i /\ c.ok)
    => /\ SuccessReported(u)
       /\ \E l \in lookups : l.by = u.by /\ l.i = u.i /\ l.what = "target" /\ l.ok
       /\ \E l \in lookups : l.by = u.by /\ l.i = u.i /\ l.what = "work" /\ ~l.ok
       /\ Cardinality({c \in createCalls : c.by = u.by /\ c.i = u.i}) = 1

\* C8 witness: a pass opened a pull request for a pushed work branch.
C8_Witness ==
  \E u \in pushed :
    /\ IterationOver(u.by, u.i)
    /\ WorkBranchWasAbsent(u)
    /\ \E c \in createCalls : c.by = u.by /\ c.i = u.i /\ c.ok

\* The pass did not end before its last target.
NotEndedEarly(p) == pc[p] = "done" => idx[p] = Len(passTargets[p]) + 1

\* C9: when the runner answers ErrNoopCherryPick for a target, exactly one
\* informational comment naming the target is posted, no pull request is
\* created for it, and the pass goes on with the next target.
C9_NoOp ==
  \A v \in invoked :
    v.result = "noop" =>
      /\ OneComment(v.by, v.i, LAMBDA c :
           c.marker = "info" /\ c.kind = "NoOp" /\ c.names = {v.target} /\ c.url = NoPR)
      /\ ~\E c \in createCalls : c.by = v.by /\ c.i = v.i
      /\ ~\E q \in prs : q.by = v.by /\ q.base = v.target
      /\ idx[v.by] > v.i
      /\ NotEndedEarly(v.by)
      /\ (pc[v.by] = "done" /\ v.i < Len(passTargets[v.by])) =>
           CommentsFor(v.by, v.i + 1) /= {}

\* C9 witness: a no-op on the first target, and the pass finished the second.
C9_Witness ==
  \E v \in invoked :
    /\ v.result = "noop"
    /\ v.i = 1
    /\ pc[v.by] = "done"
    /\ Len(passTargets[v.by]) = 2

\* C10: when refs/heads/<target> does not exist, exactly one warning comment
\* naming the target is posted, and for that target there is no work-branch
\* lookup, no runner call, no push and no pull request.
C10_TargetMissing ==
  \A l \in lookups :
    (l.what = "target" /\ ~l.ok) =>
      /\ OneComment(l.by, l.i, LAMBDA c :
           c.marker = "warning" /\ c.kind = "TargetMissing" /\ c.names = {l.ref})
      /\ ~\E w \in lookups : w.by = l.by /\ w.i = l.i /\ w.what = "work"
      /\ ~\E v \in invoked : v.by = l.by /\ v.i = l.i
      /\ ~\E u \in pushed : u.by = l.by /\ u.i = l.i
      /\ ~\E c \in createCalls : c.by = l.by /\ c.i = l.i
      /\ ~\E q \in prs : q.by = l.by /\ q.base = l.ref

\* C10 witness: a finished pass with a missing target.
C10_Witness ==
  \E l \in lookups : l.what = "target" /\ ~l.ok /\ ~l.exists /\ pc[l.by] = "done"

\* The provided signature is the one the secret gives for the body (hex
\* digits in either case).
SignatureMatches ==
  /\ inbound.sig.prefix \in {"sha256=", "SHA256="}
  /\ inbound.sig.mac = Mac(WebhookSecret, inbound.body)

Unauthorized == [status |-> 401, err |-> TRUE]

\* C5: an event whose provided signature is missing or does not match is
\* answered 401 with an error, spawns no task and causes no GitHub call, on
\* every inbound path (ServeHTTP, HandleFromEnvelope, the SQS worker).
C5_SignatureGating ==
  (inbound /= NoEvent /\ ~SignatureMatches) =>
    /\ response = Unauthorized
    /\ task = NoTask
    /\ dispatched = [what |-> "nothing", override |-> <<>>]
    /\ ghCalls = {}

RoutedEvents == {"pull_request", "create", "label"}

\* C6: for a correctly signed event HandleFromEnvelope reports 202 and spawns
\* the task when the type is pull_request, create or label and the payload
\* parses, 400 with an error when such a payload does not parse, and 204
\* without error for every other type; no handler reports another status
\* than 202, 204, 400 or 401.
C6_RouterStatus ==
  /\ (inbound.path = "envelope" /\ SignatureMatches) =>
       /\ (inbound.event \in RoutedEvents /\ inbound.body.json = "valid") =>
            /\ response = [status |-> 202, err |-> FALSE]
            /\ task.kind = inbound.event
       /\ (inbound.event \in RoutedEvents /\ inbound.body.json /= "valid") =>
            /\ response = [status |-> 400, err |-> TRUE]
            /\ task = NoTask
       /\ inbound.event \notin RoutedEvents =>
            /\ response = [status |-> 204, err |-> FALSE]
            /\ task = NoTask
  /\ inbound /= NoEvent => response.status \in {202, 204, 400, 401}
  /\ response.status \in {202, 204} <=> (inbound /= NoEvent /\ ~response.err)

\* C6 witness: a signed event of a type the router does not know, answered
\* 204 without error.
C6_Witness ==
  /\ inbound.path = "envelope"
  /\ SignatureMatches
  /\ inbound.event = "push"
  /\ response = [status |-> 204, err |-> FALSE]

\* C7: Processor.handlePREvent starts a processing pass iff the event has an
\* installation, the PR is merged and the action is closed or labeled; it
\* starts the unlabel reversal iff the event has an installation, the PR is
\* merged, the action is unlabeled and a label is present; in every other
\* case it makes no GitHub call, posts no comment and changes nothing.  (A
\* task that a panic ended is left aside.)
C7_Dispatch ==
  (/\ task.kind = "pull_request"
   /\ task.router = "processor"
   /\ task.state \notin {"spawned", "panicked"}) =>
    LET e == task.e
    IN  /\ dispatched.what = "pass" <=>
             (e.installation /\ e.merged /\ e.action \in {"closed", "labeled"})
        /\ dispatched.what = "unlabel" <=>
             (e.installation /\ e.merged /\ e.action = "unlabeled" /\ e.label.present)
        /\ dispatched.what = "nothing" =>
             /\ task.state = "returned"
             /\ ghCalls = {}
             /\ notes = <<>>
             /\ reversal = NoReversal
             /\ \A p \in Passes : pc[p] = "idle"

\* C7 witness: an unlabeled event on a merged PR whose reversal ran to its
\* end and posted its comment.
C7_Witness ==
  /\ task.kind = "pull_request"
  /\ task.router = "processor"
  /\ task.state = "returned"
  /\ dispatched.what = "unlabel"
  /\ notes /= <<>>

\* C11: when the work branch was pushed and PR().Create fails, one warning
\* comment naming the target is posted, the pushed work branch is still a ref
\* of the repository, no pull request exists for it, and the pass goes on
\* with the next target.
C11_CreateFailure ==
  \A c \in createCalls :
    ~c.ok =>
      /\ OneComment(c.by, c.i, LAMBDA k :
           k.marker = "warning" /\ k.kind = "CreateFailed" /\ k.names = {c.base})
      /\ \E u \in pushed : u.by = c.by /\ u.i = c.i /\ u.branch = c.head
      /\ c.head \in refs
      /\ ~\E q \in prs : q.by = c.by /\ q.base = c.base
      /\ idx[c.by] > c.i
      /\ NotEndedEarly(c.by)

\* The Repos().GetCommit call of pass p.
CommitLookups(p) == {l \in lookups : l.by = p /\ l.what = "commit"}

\* C12: the runner is invoked with mainline 1 exactly when the commit lookup
\* for the resolved SHA succeeded and reported more than one parent, and
\* with no mainline otherwise; a failed lookup does not end the pass; every
\* target of a pass gets the same classification.
C12_Topology ==
  \A p \in Passes :
    /\ \A l \in CommitLookups(p) :
         /\ l.ref = mergeSHA[p]
         /\ pc[p] /= "aborted"
         /\ isMerge[p] <=> (l.ok /\ sourcePR.parents > 1)
    /\ \A v \in invoked :
         v.by = p =>
           /\ Cardinality(CommitLookups(p)) = 1
           /\ v.sha = mergeSHA[p]
           /\ \A l \in CommitLookups(p) :
                v.mainline = (IF l.ok /\ sourcePR.parents > 1 THEN 1 ELSE 0)
           /\ \A w \in invoked : w.by = p => w.mainline = v.mainline

\* C12 witness: the lookup of a two-parent commit failed, and the pass still
\* invoked the runner, without mainline, for both of its targets.
C12_Witness ==
  \E v, w \in invoked :
    /\ v.by = w.by /\ v.i = 1 /\ w.i = 2
    /\ v.mainline = 0
    /\ sourcePR.parents > 1
    /\ \E l \in CommitLookups(v.by) : ~l.ok

\* What pass p did for its targets: ref lookups, runner calls, pushes, Create
\* calls.
TargetWork(p) ==
  {l \in lookups : l.by = p /\ l.what \in {"target", "work"}}
    \cup {v \in invoked : v.by = p}
    \cup {u \in pushed : u.by = p}
    \cup {c \in createCalls : c.by = p}

\* The PR().ListCommits calls of pass p.
ListCommitsCalls(p) == {l \in lookups : l.by = p /\ l.what = "commits"}

\* C13: a pass that has targets uses the recorded merge SHA of the PR when it
\* is not empty; otherwise the SHA of the last listed commit; when the list
\* call fails or the list is empty it posts exactly one "could not determine"
\* warning and ends without any work for a target.
C13_MergeSHA ==
  \A p \in Passes :
    (pc[p] /= "idle" /\ Len(passTargets[p]) > 0) =>
      IF sourcePR.sha /= NoSHA
      THEN /\ mergeSHA[p] = sourcePR.sha
           /\ ListCommitsCalls(p) = {}
           /\ pc[p] /= "aborted"
      ELSE /\ Cardinality(ListCommitsCalls(p)) = 1
           /\ \A l \in ListCommitsCalls(p) :
                IF l.ok /\ Len(sourcePR.commits) > 0
                THEN /\ mergeSHA[p] = sourcePR.commits[Len(sourcePR.commits)]
                     /\ pc[p] /= "aborted"
                ELSE /\ pc[p] = "aborted"
                     /\ posted[p] = <<shaMissingComment>>
                     /\ shaMissingComment.marker = "warning"
                     /\ TargetWork(p) = {}

\* C13 witness: a pass ran to its end on the SHA of the last listed commit.
C13_Witness ==
  \E p \in Passes :
    /\ pc[p] = "done"
    /\ sourcePR.sha = NoSHA
    /\ Len(sourcePR.commits) > 1
    /\ \E v \in invoked : v.by = p /\ v.sha = mergeSHA[p]

\* The merge SHA of the source PR: the recorded one, else the last commit.
PRMergeSHA ==
  IF sourcePR.sha /= NoSHA THEN sourcePR.sha
  ELSE IF Len(sourcePR.commits) > 0 THEN sourcePR.commits[Len(sourcePR.commits)]
  ELSE NoSHA

\* The reversal commented on target X.
Noted(X) == \E k \in 1..Len(notes) : notes[k].target = X

\* C14: the unlabel reversal takes the targets of the removed label in turn,
\* each on the work branch of the target and the merge SHA of the PR; for a
\* target whose list call, close calls and delete call succeeded (not-found
\* counting as success for the delete) no pull request with that head and
\* base is open any more, the work-branch ref is gone and the reversal has
\* commented; a delete answered with not-found is reported as success.
C14_UnlabelReversal ==
  dispatched.what = "unlabel" =>
    /\ \A j \in 1..Len(reversal.log) :
         LET d == reversal.log[j]
         IN  /\ d.target = targetsOfLabel[task.e.label][j]
             /\ d.workBranch = workBranchOf(d.target, PRMergeSHA)
             /\ (d.listOK /\ d.closed = d.edited /\ d.delete \in {"deleted", "notfound"}) =>
                  /\ listOpenPRs(d.workBranch, d.target) = {}
                  /\ d.workBranch \notin refs
                  /\ ~d.err
                  /\ Noted(d.target)
             /\ d.delete = "notfound" => (~d.err /\ Noted(d.target))
             /\ d.err => ~Noted(d.target)
    /\ (task.state = "returned" /\ reversal.sha /= NoSHA) =>
         Len(reversal.log) = Len(targetsOfLabel[task.e.label])

\* C14 witness: the reversal closed an open pull request, deleted its work
\* branch and commented.
C14_Witness ==
  /\ task.state = "returned"
  /\ dispatched.what = "unlabel"
  /\ \E j \in 1..Len(reversal.log) :
       LET d == reversal.log[j]
       IN  /\ d.edited /= {}
           /\ d.closed = d.edited
           /\ d.delete = "deleted"
           /\ Noted(d.target)

\* The number a digit string denotes, compared without any width: leading
\* zeros dropped, then by length, then digit by digit.
stripZeros(s) ==
  LET nz == {k \in 1..Len(s) : s[k] /= "0"}
  IN  IF nz = {} THEN <<>> ELSE SubSeq(s, MinOf(nz), Len(s))
numberLess(a, b) ==
  LET x == stripZeros(a)
      y == stripZeros(b)
  IN  \/ Len(x) < Len(y)
      \/ /\ Len(x) = Len(y)
         /\ \E k \in 1..Len(x) :
              /\ digitValue(x[k]) < digitValue(y[k])
              /\ \A j \in 1..(k - 1) : x[j] = y[j]

\* The labels of the grammar `cherry-pick to <team>-release/<num>` among S,
\* for team prefix fam.
GrammarLabels(S, fam) ==
  {l \in S : reRetentionLabel(l).ok /\ reRetentionLabel(l).fam = fam}

\* enforceLabelRetention returned nil and every DeleteLabel call succeeded.
RetentionDone ==
  /\ retention.state = "returned"
  /\ ~retention.err
  /\ \A j \in 1..Len(labelCalls) : labelCalls[j].op = "Issues.DeleteLabel" => labelCalls[j].ok

\* C15: after enforceLabelRetention with keep = N > 0 (deletions succeeding)
\* every team with k > N labels of the grammar has lost exactly its k - N
\* lowest-numbered ones, a team with at most N has lost none, and no label
\* outside the grammar is deleted.
C15_RetentionKeepsNewest ==
  (RetentionDone /\ retention.keep > 0) =>
    LET listed == retention.listed
        deleted == listed \ repoLabels
    IN  /\ \A fam \in {FamA, FamB} :
             LET team == GrammarLabels(listed, fam)
                 gone == deleted \cap team
             IN  IF Cardinality(team) > retention.keep
                 THEN /\ Cardinality(gone) = Cardinality(team) - retention.keep
                      /\ \A d \in gone, r \in team \ gone :
                           ~numberLess(reRetentionLabel(r).num, reRetentionLabel(d).num)
                 ELSE gone = {}
        /\ \A l \in deleted : reRetentionLabel(l).ok

\* C16: with keep <= 0 enforceLabelRetention returns nil and has made no call:
\* no label listing, no cleanup, no label deletion.
C16_RetentionDisabled ==
  retention.keep <= 0 =>
    /\ labelCalls = <<>>
    /\ retention.state \in {"idle", "called", "returned"}
    /\ retention.pending = {}
    /\ ~retention.err

\* C16 witness: a call with keep 0 returned on a repository where one team
\* has three labels of the grammar.
C16_Witness ==
  /\ retention.state = "returned"
  /\ retention.keep = 0
  /\ Cardinality(GrammarLabels(repoLabels, FamA)) >= 3

\* The positions of the calls with operation op.
CallsOf(op) == {j \in 1..Len(labelCalls) : labelCalls[j].op = op}

\* The create event is for a release branch.
ReleaseBranchCreated(e) == e.refType = "branch" /\ reReleaseBranch(e.ref).ok

\* C17: for a create event of a release branch (with repository and
\* installation, clients built) handleCreateEvent first ensures the label
\* `cherry-pick to <branch>` and afterwards runs retention; for any other ref
\* type or name it makes no GitHub call.
C17_CreateEvent ==
  labelTask.ensured /= "none" =>
    LET e == labelTask.e
    IN  /\ ~ReleaseBranchCreated(e) =>
             /\ labelCalls = <<>>
             /\ labelTask.pc = "returned"
             /\ retention = NoRetention
        /\ (ReleaseBranchCreated(e) /\ labelTask.ensured \in {"ok", "error"}) =>
             /\ labelTask.label = CherryPickTo \o e.ref
             /\ labelCalls /= <<>>
             /\ labelCalls[1].op = "Issues.ListLabels"
             /\ retention.state /= "idle"
             /\ retention.keep = RetentionKeep
             /\ \A j \in CallsOf("Issues.CreateLabel") :
                  j = 2 /\ labelCalls[j].arg = labelTask.label
             /\ labelTask.pc = "returned" =>
                  \E j \in CallsOf("Issues.ListLabels") :
                    /\ j > MaxOf({1} \cup CallsOf("Issues.CreateLabel"))
                    /\ \A k \in CallsOf("Issues.DeleteLabel") \cup CallsOf("Issues.ListByRepo") :
                         k > j
        /\ (ReleaseBranchCreated(e) /\ labelTask.ensured \notin {"ok", "error"}) =>
             /\ labelCalls = <<>>
             /\ (~e.repo \/ ~e.installation \/ labelTask.ensured = "noclients")

\* C17 witness: the label of a new release branch was created and retention
\* then deleted an old label.
C17_Witness ==
  /\ labelTask.pc = "returned"
  /\ labelTask.ensured = "ok"
  /\ CallsOf("Issues.CreateLabel") /= {}
  /\ CallsOf("Issues.DeleteLabel") /= {}

RECURSIVE firstSeen(_, _)
firstSeen(out, names) ==
  IF names = <<>> THEN out
  ELSE firstSeen(IF \E k \in 1..Len(out) : out[k] = Head(names)
                 THEN out ELSE Append(out, Head(names)),
                 Tail(names))

\* What each label names on its own.
targetsOfParserLabel == [l \in ParserLabels |-> ParseTargetBranches(<<l>>)]

RECURSIVE namedInOrder(_)
namedInOrder(labels) ==
  IF labels = <<>> THEN <<>>
  ELSE targetsOfParserLabel[Head(labels)] \o namedInOrder(Tail(labels))

\* C19: for every label list ParseTargetBranches returns a list without
\* duplicates, without an empty entry and without an entry that starts with
\* refs/heads/, in the first-seen order of the names over all the labels.
C19_ParseResult ==
  parseOut.done =>
    LET out == parseOut.out
    IN  /\ \A i, j \in 1..Len(out) : i /= j => out[i] /= out[j]
        /\ \A i \in 1..Len(out) : out[i] /= <<>> /\ ~HasPrefix(out[i], RefsHeads)
        /\ out = firstSeen(<<>>, namedInOrder(parseIn))

\* The label matches the cherry-pick grammar (nil and unnamed labels do not).
MatchesGrammar(l) == l.present /\ reCherryTo(TrimSpace(l.name)).ok

\* C20: ParseTargetBranches(labels) equals ParseTargetBranches of the
\* matching labels of the list alone, in the same order; a list without a
\* matching label gives the empty list.
C20_PureFilter ==
  parseOut.done =>
    /\ parseOut.out = ParseTargetBranches(SelectSeq(parseIn, MatchesGrammar))
    /\ SelectSeq(parseIn, MatchesGrammar) = <<>> => parseOut.out = <<>>

\* C20 witness: a list with a label outside the grammar after a matching one
\* was parsed to a non-empty result.
C20_Witness ==
  /\ parseOut.done
  /\ Len(parseIn) >= 2
  /\ MatchesGrammar(parseIn[1])
  /\ ~MatchesGrammar(parseIn[Len(parseIn)])
  /\ parseOut.out /= <<>>

\* name is autocherry/<target with every "/" replaced by "-">/<the first 7
\* characters of sha, or all of sha when it is shorter>.
IsWorkBranchName(name, target, sha) ==
  LET n == Len(AutocherryPrefix)
      t == Len(target)
      k == IF Len(sha) > 7 THEN 7 ELSE Len(sha)
  IN  /\ Len(name) = n + t + 1 + k
      /\ SubSeq(name, 1, n) = AutocherryPrefix
      /\ \A j \in 1..t : name[n + j] = (IF target[j] = "/" THEN "-" ELSE target[j])
      /\ name[n + t + 1] = "/"
      /\ \A j \in 1..k : name[n + t + 1 + j] = sha[j]

C22_PanicIsolation == process = "up"

\* C23: every detached path that has started making its calls (the pass, the
\* unlabel reversal, the create and the label goroutine) runs under a context
\* with a finite deadline, and the deadline of the Processor's pass is
\* CherryTimeout, or 2 minutes when CherryTimeout <= 0.
C23_BoundedTimeout ==
  /\ (\/ task.state \in {"pass", "unlabel"}
      \/ task.kind \in {"create", "label"} /\ task.state = "spawned")
       => task.deadline > 0
  /\ (task.state = "pass" /\ task.router = "processor")
       => task.deadline = IF task.cherryTimeout <= 0 THEN 120 ELSE task.cherryTimeout

\* C30: the pass started for a labeled event on a merged pull request
\* processes exactly the targets the added label names, none when it is not a
\* cherry-pick label.
C30_OnlyNewLabel ==
  (task.state = "pass" /\ task.e.action = "labeled")
    => resolveTargets(dispatched.override) = targetsOfLabel[task.e.label]

\* The calls of the log with this operation.
LabelCallsOf(log, op) == {k \in 1..Len(log) : log[k].op = op}

C29_DeletionTrigger ==
  (task.kind = "label" /\ task.state = "returned" /\ task.e.installation /\ task.e.repo) =>
    LET started == dispatched.what = "labelcleanup"
    IN  /\ started <=> (task.e.action = "deleted" /\ MatchesGrammar(task.e.label))
        /\ started => dispatched.override = ParseTargetBranches(<<task.e.label>>)

\* C24: no step of a pass removes a pushed branch, a ref, an open pull request
\* or a comment, and once the deadline of the pass has passed its steps push
\* no further work branch and create no further pull request.
C24_Cancellation ==
  [][/\ pushed \subseteq pushed'
     /\ refs \subseteq refs'
     /\ prs \subseteq prs'
     /\ \A p \in Passes :
          /\ Len(posted[p]) <= Len(posted'[p])
          /\ SubSeq(posted'[p], 1, Len(posted[p])) = posted[p]
     /\ \A p \in expired :
          /\ {u \in pushed' : u.by = p} = {u \in pushed : u.by = p}
          /\ {q \in prs' : q.by = p} = {q \in prs : q.by = p}
          /\ {c \in createCalls' : c.by = p /\ c.ok} = {c \in createCalls : c.by = p /\ c.ok}
     /\ (passes \subseteq expired) => (refs' = refs /\ prs' = prs)
    ]_vars

\* C24 witness: a pass over two targets whose deadline passed after it had
\* pushed the work branch and opened the pull request for the first target;
\* it ended without pushing for the second, and the first target's branch and
\* pull request are still there.
C24_Witness ==
  \E p \in expired :
    /\ pc[p] = "done"
    /\ Len(passTargets[p]) = 2
    /\ \E u \in pushed : u.by = p /\ u.i = 1 /\ u.branch \in refs
    /\ \E q \in prs : q.by = p /\ q.base = passTargets[p][1]
    /\ ~\E u \in pushed : u.by = p /\ u.i = 2
    /\ \E l \in lookups : l.by = p /\ l.i = 2

\* The event the claimed inference gives for the top-level keys, "" for
\* ErrUnknownEvent.
inferredEvent(keys) ==
  IF keys.pull_request THEN "pull_request"
  ELSE IF keys.ref_type = "string" THEN "create"
  ELSE IF keys.label /\ keys.action THEN "label"
  ELSE ""

\* The names of a header value, without its whitespace characters.
headerNames(h) == SelectSeq(h, LAMBDA c : c \notin Whitespace)

\* C25: ParseSQSBody of an envelope returns the trimmed X-GitHub-Event header
\* when that is non-empty and otherwise the event inferred from the payload;
\* of raw GitHub JSON the inferred event; the inference is pull_request, else
\* create for a non-empty string ref_type, else label for label and action
\* keys, else ErrUnknownEvent; an empty or blank body is an error; a returned
\* payload is the inner GitHub JSON.
C25_ParseSQSBody ==
  parseOut.done =>
    LET m == parseIn
        out == parseOut.out
        isEnvelope == m.shape = "envelope" /\ (m.headers.present \/ m.form /= "absent")
        names == IF isEnvelope /\ m.headers.present THEN headerNames(m.headers.event) ELSE <<>>
        inner == IF isEnvelope /\ m.form = "absent" THEN EmptyBody ELSE m.body
    IN  /\ (m.shape = "raw" /\ m.body.json \in {"empty", "space"}) => out.err = "bad"
        /\ (isEnvelope /\ names /= <<>>) =>
             out = [err |-> "none", event |-> names[1], payload |-> inner]
        /\ ((isEnvelope /\ names = <<>>) \/ m.shape = "raw") =>
             /\ inner.json = "valid" /\ inferredEvent(inner.keys) /= "" =>
                  out = [err |-> "none", event |-> inferredEvent(inner.keys),
                         payload |-> inner]
             /\ inner.json = "valid" /\ inferredEvent(inner.keys) = "" =>
                  out.err = "unknown"
             /\ inner.json /= "valid" => out.err = "bad"
        /\ out.err = "none" => out.payload = inner
        /\ out.err /= "none" => out.event = ""

\* C25 witness: an envelope without an event header whose payload has the
\* pull_request, label and action keys was classified pull_request.
C25_Witness ==
  /\ parseOut.done
  /\ parseIn.shape = "envelope"
  /\ parseIn.headers.present
  /\ TrimSpace(parseIn.headers.event) = <<>>
  /\ parseIn.form = "string"
  /\ parseIn.body.keys.pull_request /\ parseIn.body.keys.label /\ parseIn.body.keys.action
  /\ parseOut.out.err = "none"
  /\ parseOut.out.event = "pull_request"
  /\ parseOut.out.payload = parseIn.body

\* The runner steps of a finished doCherryPick call, without Clean.
stepsRun == SelectSeq(git.calls, LAMBDA c : c /= "Clean")

\* C26: doCherryPick runs clone, configure user, fetch, checkout, cherry-pick
\* and push in this order and stops at the first failing step; it pushes and
\* returns the work-branch name only when all six succeeded; Clean is called
\* exactly once, last, whenever the runner was created.
C26_StepOrder ==
  git.done =>
    LET order == <<"CloneWithToken", "ConfigUser", "Fetch", "CheckoutBranchFrom",
                   IF git.mainline > 0 THEN "CherryPickWithMainline" ELSE "CherryPick",
                   "Push">>
        n == Len(stepsRun)
        allOK == \A k \in 1..6 : git.outputs[k] = "ok"
    IN  /\ stepsRun = SubSeq(order, 1, n)
        /\ \A k \in 1..(n - 1) : git.outputs[k] = "ok"
        /\ git.created => (n >= 1 /\ (n < 6 => git.outputs[n] /= "ok"))
        /\ ~git.created => git.calls = <<>>
        /\ git.err = "none" <=> (git.created /\ allOK)
        /\ git.pushed /= <<>> => (git.err = "none" /\ n = 6)
        /\ git.err = "none" =>
             /\ git.pushed = <<runnerWorkBranch(git.targetBranch, git.sha)>>
             /\ git.branch = git.pushed[1]
        /\ git.err /= "none" => git.branch = <<>>
        /\ git.created =>
             /\ Len(git.calls) = n + 1
             /\ git.calls[n + 1] = "Clean"

\* C26 witness: the cherry-pick of a merge commit hit a conflict after clone,
\* configuration, fetch and checkout; nothing was pushed and Clean ran.
C26_Witness ==
  /\ git.done
  /\ git.created
  /\ git.mainline = 1
  /\ git.outputs[5] = "CONFLICT"
  /\ git.calls = <<"CloneWithToken", "ConfigUser", "Fetch", "CheckoutBranchFrom",
                   "CherryPickWithMainline", "Clean">>
  /\ git.pushed = <<>>
  /\ git.err = "conflict"

\* C27: with the steps executed by gitexec.Runner, a cherry-pick step that
\* stops with one of git's three empty-pick messages makes doCherryPick return
\* ErrNoopCherryPick, and every other failure is returned as another error.
C27_NoopClassification ==
  (git.done /\ git.created /\ git.runner = "gitexec.Runner") =>
    LET emptyPick == /\ \A k \in 1..4 : git.outputs[k] = "ok"
                     /\ git.outputs[5] \in {"previous cherry-pick is now empty",
                                            "nothing to commit", "working tree clean"}
    IN  /\ emptyPick => git.err = "noop"
        /\ ~emptyPick => git.err /= "noop"

\* C31: when the work-branch ref of a target exists at the idempotency check
\* of a pass, then whatever the lookup answered, the pass neither invokes the
\* runner nor creates a pull request for that target.
C31_NeverRepush ==
  \A l \in lookups :
    (l.what = "work" /\ l.exists) =>
      /\ ~\E v \in invoked : v.by = l.by /\ v.i = l.i
      /\ ~\E c \in createCalls : c.by = l.by /\ c.i = l.i

\* The calls of the cleanup that precedes the delete-label call at position j:
\* from the issue listing for the same label up to j, nothing else in between
\* being a listing or a delete-label call.
cleanupBefore(j) ==
  LET starts == {i \in 1..(j - 1) :
                   /\ labelCalls[i].op = "Issues.ListByRepo"
                   /\ labelCalls[i].arg = labelCalls[j].arg
                   /\ \A k \in (i + 1)..(j - 1) :
                        labelCalls[k].op \notin {"Issues.ListByRepo", "Issues.DeleteLabel"}}
  IN  IF starts = {} THEN {} ELSE MaxOf(starts)..(j - 1)

\* The cleanup in the calls ks reversed a work branch with every call
\* succeeding.
cleanedUp(ks, workBranch) ==
  /\ \E k \in ks : labelCalls[k] = LabelCall("processUnlabeled", workBranch, TRUE)
  /\ \A k \in ks : labelCalls[k].ok

C33_DeletionPolicy ==
  worker.pc /= "idle" =>
    \A k \in 1..Len(worker.done) :
      LET e == worker.done[k]
          deletes == {s \in 1..Len(e.steps) : e.steps[s] = "DeleteMessage"}
      IN  /\ ~e.receipt => (e.steps = <<>> /\ e.call = <<>>)
          /\ e.receipt =>
               /\ e.steps[1] = "handleSQSMessage"
               /\ deletes \subseteq {2}
               /\ deletes /= {} <=>
                    \/ e.code \in 200..299
                    \/ (e.code \in 400..499 /\ worker.DeleteOn4xx)

\* C33 witness: of the two messages of one receive, a worker with DeleteOn4xx
\* deleted the one answered 404 and kept the one answered 500.
C33_Witness ==
  /\ worker.pc /= "idle"
  /\ worker.DeleteOn4xx
  /\ Len(worker.done) = 2
  /\ worker.done[1].code = 404 /\ worker.done[1].steps = <<"handleSQSMessage", "DeleteMessage">>
  /\ worker.done[2].code = 500 /\ worker.done[2].steps = <<"handleSQSMessage">>

\* C34: handleSQSMessage answers ErrUnknownEvent with 204 and no error, any
\* other parse failure with 400 and an error, an empty payload with 204 and no
\* error, all three without calling the processor; otherwise it calls the
\* processor once, with the event parsed and with the delivery id of the
\* envelope or, when that is empty, the SQS message id, and returns the
\* processor's error and status, status 0 replaced by 200 without error and by
\* 500 with error.
C34_StatusMapping ==
  worker.pc /= "idle" =>
    \A k \in 1..Len(worker.done) :
      LET e == worker.done[k]
          parsed == ParseSQSBody(e.msg)
          header == IF e.msg.shape = "envelope" /\ e.msg.headers.present
                    THEN SelectSeq(e.msg.headers.delivery, LAMBDA c : c \notin Whitespace)
                    ELSE <<>>
      IN  e.receipt =>
            /\ Len(e.call) <= 1
            /\ parsed.err = "unknown" => (e.code = 204 /\ ~e.err /\ e.call = <<>>)
            /\ parsed.err = "bad" => (e.code = 400 /\ e.err /\ e.call = <<>>)
            /\ (parsed.err = "none" /\ parsed.payload.json = "empty") =>
                 (e.code = 204 /\ ~e.err /\ e.call = <<>>)
            /\ (parsed.err = "none" /\ parsed.payload.json /= "empty") =>
                 /\ Len(e.call) = 1
                 /\ e.call[1].event = parsed.event
                 /\ e.call[1].payload = parsed.payload
                 /\ e.call[1].delivery = IF header = <<>> THEN e.id ELSE header
                 /\ e.err = e.reply[1].err
                 /\ e.code = IF e.reply[1].status /= 0 THEN e.reply[1].status
                             ELSE IF e.reply[1].err THEN 500 ELSE 200

\* C34 witness: a processor returned status 0 with an error for a message
\* whose envelope has a blank delivery header; the worker reports 500 and the
\* processor was called with the message id as delivery id.
C34_Witness ==
  /\ worker.pc /= "idle"
  /\ \E k \in 1..Len(worker.done) :
       LET e == worker.done[k]
       IN  /\ e.call /= <<>>
           /\ e.msg.headers.delivery = <<" ">>
           /\ e.call[1].delivery = e.id
           /\ e.reply[1].status = 0 /\ e.reply[1].err
           /\ e.code = 500

\* The Worker has Client, QueueURL and Processor.
Configured == worker.Client /\ worker.QueueURL /\ worker.Processor

\* C35: Run on a Worker without Client, QueueURL or Processor returns the
\* configuration error without ever calling ReceiveMessage; on a configured
\* Worker it returns only with the context cancelled, and then ctx.Err(), so
\* neither an empty receive nor a failed one ends it; and once the context is
\* cancelled Run eventually returns ctx.Err(), wherever it is, the back-off
\* included.
C35_RunTerminates ==
  /\ [](worker.pc \notin {"idle", "called"} /\ ~Configured =>
          worker.pc = "returned" /\ worker.ret = "missing" /\ ~worker.received)
  /\ [](worker.pc = "returned" /\ Configured =>
          worker.ctx = "cancelled" /\ worker.ret = "ctx")
  /\ (worker.pc /= "idle" /\ Configured /\ worker.ctx = "cancelled")
       ~> (worker.pc = "returned" /\ worker.ret = "ctx")

\* C35 witness: a configured Worker has received, had its context cancelled
\* and returned ctx.Err().
C35_Witness ==
  /\ worker.pc = "returned"
  /\ Configured
  /\ worker.received
  /\ worker.ret = "ctx"

\* C36: the SQS message of an event that HandleFromEnvelope answered with 202
\* gets its DeleteMessage call whatever the detached task does afterwards:
\* either the worker has made the call or it is still running and about to;
\* a message that is never deleted becomes visible again and is redelivered.
C36_AckIndependentOfOutcome ==
  (inbound.path = "sqs" /\ response.status = 202) =>
    \/ worker.pc = "decided" /\ worker.delete
    \/ worker.pc = "idle" /\ process = "up"

\* The work branch both the reversal and the pass compute for r/1.
RaceWorkBranch == workBranchOf(TargetSlash, reversal.sha)

\* The unlabel reversal has returned, every target reversed with all its
\* calls succeeding.
ReversalSucceeded ==
  /\ task.state = "returned"
  /\ Len(reversal.log) = Len(reversal.targets)
  /\ \A j \in 1..Len(reversal.log) :
       LET d == reversal.log[j]
       IN  d.listOK /\ d.closed = d.edited /\ d.delete \in {"deleted", "notfound"}

\* C37: once the unlabel reversal for r/1 has completed successfully, the
\* idempotency check of a pass for r/1 does not find the work branch: the pass
\* goes on to the runner instead of commenting "already open" or "work
\* branch exists", the runner is invoked, and a successful create opens the
\* pull request from the work branch into r/1.
C37_UnlabelThenRelabel ==
  [][\A p \in passes :
       (ReversalSucceeded /\ pc[p] \in {"work", "pick", "create"} /\ pc'[p] /= pc[p]
          /\ Target(p) = TargetSlash) =>
         /\ pc[p] = "work" => (pc'[p] = "pick" /\ posted'[p] = posted[p])
         /\ pc[p] = "pick" =>
              \E v \in invoked' : v.by = p /\ v.i = idx[p] /\ v.target = TargetSlash
         /\ (pc[p] = "create" /\ prs' /= prs) =>
              prs' = prs \cup {[head |-> RaceWorkBranch, base |-> TargetSlash, by |-> p]}
    ]_vars

\* C37 witness: the reversal closed the pull request of an earlier pass and
\* deleted its work branch; the pass that followed did not find the branch,
\* pushed it again and opened a new pull request.
C37_Witness ==
  /\ ReversalSucceeded
  /\ reversal.log[1].edited /= {} /\ reversal.log[1].delete = "deleted"
  /\ pc[1] = "done"
  /\ \E l \in lookups : l.by = 1 /\ l.what = "work" /\ l.ref = RaceWorkBranch /\ ~l.exists
  /\ [head |-> RaceWorkBranch, base |-> TargetSlash, by |-> 1] \in prs
  /\ ~\E k \in 1..Len(posted[1]) : posted[1][k].kind \in {"AlreadyOpen", "BranchExistsNoPR"}

\* C38: when the unlabel reversal and the pass for the same pull request and
\* target have both finished, in whatever order their calls were made, and
\* the reversal returned no error, no open pull request from the work branch
\* into the target and no work-branch ref exists.
C38_ReversalRacesPass ==
  (/\ task.state = "returned"
   /\ pc[1] \in {"done", "aborted"}
   /\ \A j \in 1..Len(reversal.log) : ~reversal.log[j].err) =>
    /\ listOpenPRs(RaceWorkBranch, TargetSlash) = {}
    /\ RaceWorkBranch \notin refs

\* C39: the work-branch lookup of one target never names the branch pushed
\* for another target, so no target is passed over as "already open" or
\* "work branch exists" because of the branch of another (target, SHA) pair.
C39_NamesIdentifyPairs ==
  /\ \A u \in pushed, l \in lookups :
       (l.what = "work" /\ l.ref = u.branch) => passTargets[l.by][l.i] = u.target
  /\ \A p \in Passes : \A k \in 1..Len(posted[p]) :
       LET c == posted[p][k]
       IN  c.kind \in {"AlreadyOpen", "BranchExistsNoPR"} =>
             ~\E u \in pushed :
                /\ u.target /= passTargets[p][c.for]
                /\ u.branch = workBranchOf(passTargets[p][c.for], mergeSHA[p])

\* C40: in every iteration of the unlabel reversal: a failed listing is
\* returned as the error, no pull request is closed and DeleteRef is not
\* called; a DeleteRef failure other than not-found is returned as the error;
\* after an error no comment is posted for that target and the loop goes on
\* with the label's next target; and a failed close does not keep DeleteRef
\* from being called and the ref from being deleted.
C40_ReversalErrorPaths ==
  [][Len(reversal'.log) = Len(reversal.log) + 1 =>
       LET d == reversal'.log[Len(reversal'.log)]
       IN  /\ ~d.listOK =>
                /\ d.err
                /\ d.edited = {} /\ d.closed = {} /\ d.delete = "none"
                /\ prs' = prs /\ refs' = refs
           /\ d.delete = "error" => (d.err /\ refs' = refs)
           /\ d.err =>
                /\ notes' = notes
                /\ reversal'.idx = reversal.idx + 1
                /\ reversal'.targets = reversal.targets
                /\ task'.state = IF reversal.idx < Len(reversal.targets)
                                 THEN "unlabel" ELSE "returned"
           /\ (d.listOK /\ d.closed /= d.edited) =>
                /\ d.delete /= "none"
                /\ d.delete = "deleted" => d.workBranch \notin refs'
    ]_vars

\* C40 witness: a reversal over two targets whose listing failed for the
\* first, which got no comment, and which went on to the second, where the
\* ref could not be deleted.
C40_Witness ==
  /\ task.state = "returned"
  /\ Len(reversal.log) = 2
  /\ ~reversal.log[1].listOK /\ reversal.log[1].err
  /\ reversal.log[2].listOK /\ reversal.log[2].delete = "error"
  /\ notes = <<>>

====
